---- MODULE Spec2Model ----
(***************************************************************************)
(* A model of the chess rules engine in src-tauri/src/chess_engine: the    *)
(* board and its attack query (board.rs), the position with its hash,      *)
(* repetition and material rules (position.rs), the pseudo-legal move      *)
(* generator (move_gen.rs), the legality filter (validation.rs), the FEN   *)
(* codec (fen.rs) and the game controller ChessGame (game.rs).             *)
(*                                                                         *)
(* Squares are the indices 0..63 (a1 = 0, h8 = 63); Option::None of a      *)
(* square is NoSquare, of a cell is NoPiece, of a promotion is "None".     *)
(* Vec<T> is a sequence and keeps the order in which the code pushes.      *)
(***************************************************************************)
EXTENDS Integers, Sequences, FiniteSets, TLC

(***************************************************************************)
(* types.rs                                                                *)
(***************************************************************************)
opposite(color) == IF color = "White" THEN "Black" ELSE "White"

NoSquare == 64

NoPiece == [piece |-> "None", color |-> "None"]

Cell(p, c) == [piece |-> p, color |-> c]

rank(sq) == sq \div 8

file(sq) == sq % 8

\* Square::from_rank_file takes u8 arguments: a rank that wrapped below 0 is
\* 255 and yields None.
from_rank_file(r, f) == IF r >= 0 /\ r < 8 /\ f >= 0 /\ f < 8 THEN r * 8 + f ELSE NoSquare

NewMove(from, to) ==
    [from |-> from, to |-> to, promotion |-> "None",
     is_castling |-> FALSE, is_en_passant |-> FALSE]

\* Concatenation of a sequence of sequences (Vec::extend in a loop).
RECURSIVE Concat(_)
Concat(ss) == IF ss = <<>> THEN <<>> ELSE Head(ss) \o Concat(Tail(ss))

Last(s) == s[Len(s)]

Front(s) == SubSeq(s, 1, Len(s) - 1)

(***************************************************************************)
(* board.rs                                                                *)
(***************************************************************************)
is_valid_square(r, f) == r >= 0 /\ r < 8 /\ f >= 0 /\ f < 8

EmptyBoard == [sq \in 0..63 |-> NoPiece]

set(board, sq, cell) == [board EXCEPT ![sq] = cell]

is_empty(board, sq) == board[sq].piece = "None"

initial_position ==
    LET back == <<"Rook", "Knight", "Bishop", "Queen", "King", "Bishop", "Knight", "Rook">>
    IN [sq \in 0..63 |->
          IF sq < 8 THEN Cell(back[sq + 1], "White")
          ELSE IF sq < 16 THEN Cell("Pawn", "White")
          ELSE IF sq >= 56 THEN Cell(back[sq - 55], "Black")
          ELSE IF sq >= 48 THEN Cell("Pawn", "Black")
          ELSE NoPiece]

find_king(board, color) ==
    LET ks == {i \in 0..63 : board[i] = Cell("King", color)}
    IN IF ks = {} THEN NoSquare ELSE CHOOSE i \in ks : \A j \in ks : i <= j

RECURSIVE pieces_from(_, _, _)
pieces_from(board, color, i) ==
    IF i > 63 THEN <<>>
    ELSE (IF board[i].color = color
          THEN <<[square |-> i, piece |-> board[i].piece]>>
          ELSE <<>>) \o pieces_from(board, color, i + 1)

pieces_of_color(board, color) == pieces_from(board, color, 0)

KNIGHT_OFFSETS ==
    << <<-2, -1>>, <<-2, 1>>, <<-1, -2>>, <<-1, 2>>,
       <<1, -2>>, <<1, 2>>, <<2, -1>>, <<2, 1>> >>

KING_OFFSETS ==
    << <<-1, -1>>, <<-1, 0>>, <<-1, 1>>, <<0, -1>>,
       <<0, 1>>, <<1, -1>>, <<1, 0>>, <<1, 1>> >>

BISHOP_DIRECTIONS == << <<-1, -1>>, <<-1, 1>>, <<1, -1>>, <<1, 1>> >>

ROOK_DIRECTIONS == << <<-1, 0>>, <<1, 0>>, <<0, -1>>, <<0, 1>> >>

RECURSIVE is_attacked_along_ray(_, _, _, _, _, _, _)
is_attacked_along_ray(board, r, f, attacker_color, rank_dir, file_dir, piece_types) ==
    LET r2 == r + rank_dir
        f2 == f + file_dir
    IN IF ~is_valid_square(r2, f2) THEN FALSE
       ELSE LET c == board[r2 * 8 + f2]
            IN IF c.piece # "None"
               THEN c.color = attacker_color /\ c.piece \in piece_types
               ELSE is_attacked_along_ray(board, r2, f2, attacker_color,
                                          rank_dir, file_dir, piece_types)

is_attacked_by(board, square, attacker_color) ==
    LET target_rank == rank(square)
        target_file == file(square)
        pawn_direction == IF attacker_color = "White" THEN 1 ELSE -1
        pawn_rank == target_rank - pawn_direction
        leaper(offsets, kind) ==
            \E i \in 1..Len(offsets) :
                LET r == target_rank + offsets[i][1]
                    f == target_file + offsets[i][2]
                IN is_valid_square(r, f) /\ board[r * 8 + f] = Cell(kind, attacker_color)
    IN \/ /\ pawn_rank >= 0 /\ pawn_rank < 8
          /\ \E file_offset \in {-1, 1} :
                LET pawn_file == target_file + file_offset
                IN /\ pawn_file >= 0 /\ pawn_file < 8
                   /\ board[pawn_rank * 8 + pawn_file] = Cell("Pawn", attacker_color)
       \/ leaper(KNIGHT_OFFSETS, "Knight")
       \/ leaper(KING_OFFSETS, "King")
       \/ \E i \in 1..4 :
            is_attacked_along_ray(board, target_rank, target_file, attacker_color,
                                  BISHOP_DIRECTIONS[i][1], BISHOP_DIRECTIONS[i][2],
                                  {"Bishop", "Queen"})
       \/ \E i \in 1..4 :
            is_attacked_along_ray(board, target_rank, target_file, attacker_color,
                                  ROOK_DIRECTIONS[i][1], ROOK_DIRECTIONS[i][2],
                                  {"Rook", "Queen"})

(***************************************************************************)
(* position.rs: CastlingRights                                             *)
(***************************************************************************)
CastlingRights_new ==
    [white_kingside |-> TRUE, white_queenside |-> TRUE,
     black_kingside |-> TRUE, black_queenside |-> TRUE]

CastlingRights_none ==
    [white_kingside |-> FALSE, white_queenside |-> FALSE,
     black_kingside |-> FALSE, black_queenside |-> FALSE]

can_castle(rights, color, kingside) ==
    IF color = "White"
    THEN (IF kingside THEN rights.white_kingside ELSE rights.white_queenside)
    ELSE (IF kingside THEN rights.black_kingside ELSE rights.black_queenside)

(***************************************************************************)
(* move_gen.rs                                                             *)
(***************************************************************************)
PROMOTION_PIECES == <<"Queen", "Rook", "Bishop", "Knight">>

promotions(from, to) ==
    [i \in 1..4 |-> [NewMove(from, to) EXCEPT !.promotion = PROMOTION_PIECES[i]]]

generate_pawn_moves(board, from, color, en_passant) ==
    LET direction == IF color = "White" THEN 1 ELSE -1
        start_rank == IF color = "White" THEN 1 ELSE 6
        promotion_rank == IF color = "White" THEN 7 ELSE 0
        from_rank == rank(from)
        from_file == file(from)
        one_ahead_rank == from_rank + direction
        one_ahead == from_rank_file(one_ahead_rank, from_file)
        two_ahead_rank == from_rank + 2 * direction
        two_ahead == from_rank_file(two_ahead_rank, from_file)
        pushes ==
            IF is_valid_square(one_ahead_rank, from_file) /\ is_empty(board, one_ahead)
            THEN (IF one_ahead_rank = promotion_rank
                  THEN promotions(from, one_ahead)
                  ELSE <<NewMove(from, one_ahead)>>)
                 \o (IF /\ from_rank = start_rank
                        /\ is_valid_square(two_ahead_rank, from_file)
                        /\ is_empty(board, two_ahead)
                     THEN <<NewMove(from, two_ahead)>>
                     ELSE <<>>)
            ELSE <<>>
        captures(file_offset) ==
            LET capture_rank == from_rank + direction
                capture_file == from_file + file_offset
                capture_square == from_rank_file(capture_rank, capture_file)
            IN IF is_valid_square(capture_rank, capture_file)
               THEN (IF board[capture_square].piece # "None"
                        /\ board[capture_square].color # color
                     THEN (IF capture_rank = promotion_rank
                           THEN promotions(from, capture_square)
                           ELSE <<NewMove(from, capture_square)>>)
                     ELSE <<>>)
                    \o (IF en_passant # NoSquare /\ capture_square = en_passant
                        THEN <<[NewMove(from, capture_square) EXCEPT !.is_en_passant = TRUE]>>
                        ELSE <<>>)
               ELSE <<>>
    IN pushes \o captures(-1) \o captures(1)

\* Shared body of generate_knight_moves and generate_king_moves.
generate_offset_moves(board, from, color, offsets) ==
    LET cand == [i \in 1..Len(offsets) |->
                    LET to_rank == rank(from) + offsets[i][1]
                        to_file == file(from) + offsets[i][2]
                    IN IF is_valid_square(to_rank, to_file)
                       THEN from_rank_file(to_rank, to_file)
                       ELSE NoSquare]
        can_move(sq) == sq # NoSquare /\ board[sq].color # color
        sel == SelectSeq(cand, can_move)
    IN [i \in 1..Len(sel) |-> NewMove(from, sel[i])]

generate_knight_moves(board, from, color) ==
    generate_offset_moves(board, from, color, KNIGHT_OFFSETS)

generate_king_moves(board, from, color) ==
    generate_offset_moves(board, from, color, KING_OFFSETS)

RECURSIVE slide(_, _, _, _, _, _, _)
slide(board, from, color, r, f, rank_dir, file_dir) ==
    LET r2 == r + rank_dir
        f2 == f + file_dir
    IN IF ~is_valid_square(r2, f2) THEN <<>>
       ELSE LET to_square == r2 * 8 + f2
            IN IF board[to_square].piece # "None"
               THEN (IF board[to_square].color # color
                     THEN <<NewMove(from, to_square)>>
                     ELSE <<>>)
               ELSE <<NewMove(from, to_square)>>
                    \o slide(board, from, color, r2, f2, rank_dir, file_dir)

generate_sliding_moves(board, from, color, directions) ==
    Concat([i \in 1..Len(directions) |->
              slide(board, from, color, rank(from), file(from),
                    directions[i][1], directions[i][2])])

generate_bishop_moves(board, from, color) ==
    generate_sliding_moves(board, from, color, BISHOP_DIRECTIONS)

generate_rook_moves(board, from, color) ==
    generate_sliding_moves(board, from, color, ROOK_DIRECTIONS)

generate_queen_moves(board, from, color) ==
    generate_bishop_moves(board, from, color) \o generate_rook_moves(board, from, color)

generate_castling_moves(position) ==
    LET color == position.side_to_move
        board == position.board
        r == IF color = "White" THEN 0 ELSE 7
        king_square == from_rank_file(r, 4)
        king_present == board[king_square] = Cell("King", color)
        rook_present(sq) == board[sq] = Cell("Rook", color)
        kingside ==
            IF /\ can_castle(position.castling_rights, color, TRUE)
               /\ king_present /\ rook_present(from_rank_file(r, 7))
               /\ is_empty(board, from_rank_file(r, 5))
               /\ is_empty(board, from_rank_file(r, 6))
            THEN <<[NewMove(king_square, from_rank_file(r, 6)) EXCEPT !.is_castling = TRUE]>>
            ELSE <<>>
        queenside ==
            IF /\ can_castle(position.castling_rights, color, FALSE)
               /\ king_present /\ rook_present(from_rank_file(r, 0))
               /\ is_empty(board, from_rank_file(r, 1))
               /\ is_empty(board, from_rank_file(r, 2))
               /\ is_empty(board, from_rank_file(r, 3))
            THEN <<[NewMove(king_square, from_rank_file(r, 2)) EXCEPT !.is_castling = TRUE]>>
            ELSE <<>>
    IN kingside \o queenside

generate_pseudo_legal_moves(position) ==
    LET color == position.side_to_move
        board == position.board
        pcs == pieces_of_color(board, color)
        for_piece(e) ==
            CASE e.piece = "Pawn" ->
                    generate_pawn_moves(board, e.square, color, position.en_passant_target)
              [] e.piece = "Knight" -> generate_knight_moves(board, e.square, color)
              [] e.piece = "Bishop" -> generate_bishop_moves(board, e.square, color)
              [] e.piece = "Rook" -> generate_rook_moves(board, e.square, color)
              [] e.piece = "Queen" -> generate_queen_moves(board, e.square, color)
              [] e.piece = "King" -> generate_king_moves(board, e.square, color)
    IN Concat([i \in 1..Len(pcs) |-> for_piece(pcs[i])]) \o generate_castling_moves(position)

(***************************************************************************)
(* position.rs: Position                                                   *)
(*                                                                         *)
(* The Zobrist tables hold pseudo-random 64-bit words that the code only   *)
(* ever combines with XOR and compares for equality.  A table entry is     *)
(* modelled by its key and a hash by the set of keys XOR-ed into it (XOR   *)
(* of a key already present removes it), so two hashes are equal exactly   *)
(* when the same table entries went into them.                             *)
(***************************************************************************)
ZOBRIST_PIECES(square, color, piece) == <<"piece", square, color, piece>>

ZOBRIST_CASTLING(i) == <<"castling", i, "", "">>

ZOBRIST_EN_PASSANT(f) == <<"en_passant", f, "", "">>

ZOBRIST_SIDE_TO_MOVE == <<"side", 0, "", "">>

Xor(hash, key) == IF key \in hash THEN hash \ {key} ELSE hash \cup {key}

\* The loop over the 64 squares: the keys are pairwise different, so xor-ing
\* one key per occupied square into the hash leaves exactly those keys.
hash_pieces(board, hash) ==
    LET occupied == {i \in 0..63 : board[i].piece # "None"}
        keys == {ZOBRIST_PIECES(i, board[i].color, board[i].piece) : i \in occupied}
    IN (hash \ keys) \cup (keys \ hash)

compute_zobrist_hash(position) ==
    LET h0 == hash_pieces(position.board, {})
        cr == position.castling_rights
        h1 == IF cr.white_kingside THEN Xor(h0, ZOBRIST_CASTLING(0)) ELSE h0
        h2 == IF cr.white_queenside THEN Xor(h1, ZOBRIST_CASTLING(1)) ELSE h1
        h3 == IF cr.black_kingside THEN Xor(h2, ZOBRIST_CASTLING(2)) ELSE h2
        h4 == IF cr.black_queenside THEN Xor(h3, ZOBRIST_CASTLING(3)) ELSE h3
        h5 == IF position.en_passant_target # NoSquare
              THEN Xor(h4, ZOBRIST_EN_PASSANT(file(position.en_passant_target)))
              ELSE h4
    IN IF position.side_to_move = "Black" THEN Xor(h5, ZOBRIST_SIDE_TO_MOVE) ELSE h5

Position_empty ==
    [board |-> EmptyBoard, side_to_move |-> "White",
     castling_rights |-> CastlingRights_none, en_passant_target |-> NoSquare,
     halfmove_clock |-> 0, fullmove_number |-> 1, position_history |-> <<>>]

Position_new ==
    LET position == [Position_empty EXCEPT !.board = initial_position,
                                           !.castling_rights = CastlingRights_new]
    IN [position EXCEPT !.position_history = <<compute_zobrist_hash(position)>>]

\* is_repetition that asks for more than three occurrences: the fault C14
\* excludes.
is_repetition_more_than_three(position) ==
    LET h == position.position_history
    IN IF Len(h) < 3 THEN FALSE
       ELSE Cardinality({i \in 1..Len(h) : h[i] = h[Len(h)]}) > 3

is_repetition(position) ==
    LET h == position.position_history
    IN IF Len(h) < 3 THEN FALSE
       ELSE Cardinality({i \in 1..Len(h) : h[i] = h[Len(h)]}) >= 3

\* has_insufficient_material that does not compare the bishops' squares: the
\* fault C20 excludes.
has_insufficient_material_any_bishops(position) ==
    LET white_pieces == pieces_of_color(position.board, "White")
        black_pieces == pieces_of_color(position.board, "Black")
        minor(ps) == \E i \in 1..Len(ps) : ps[i].piece \in {"Bishop", "Knight"}
        bishops(ps) == {i \in 1..Len(ps) : ps[i].piece = "Bishop"}
    IN \/ Len(white_pieces) = 1 /\ Len(black_pieces) = 1
       \/ Len(white_pieces) = 1 /\ Len(black_pieces) = 2 /\ minor(black_pieces)
       \/ Len(black_pieces) = 1 /\ Len(white_pieces) = 2 /\ minor(white_pieces)
       \/ /\ Len(white_pieces) = 2 /\ Len(black_pieces) = 2
          /\ bishops(white_pieces) # {} /\ bishops(black_pieces) # {}

has_insufficient_material(position) ==
    LET white_pieces == pieces_of_color(position.board, "White")
        black_pieces == pieces_of_color(position.board, "Black")
        minor(ps) == \E i \in 1..Len(ps) : ps[i].piece \in {"Bishop", "Knight"}
        bishops(ps) == {i \in 1..Len(ps) : ps[i].piece = "Bishop"}
        first(ps) == ps[CHOOSE i \in bishops(ps) : \A j \in bishops(ps) : i <= j].square
    IN \/ Len(white_pieces) = 1 /\ Len(black_pieces) = 1
       \/ Len(white_pieces) = 1 /\ Len(black_pieces) = 2 /\ minor(black_pieces)
       \/ Len(black_pieces) = 1 /\ Len(white_pieces) = 2 /\ minor(white_pieces)
       \/ /\ Len(white_pieces) = 2 /\ Len(black_pieces) = 2
          /\ bishops(white_pieces) # {} /\ bishops(black_pieces) # {}
          /\ (rank(first(white_pieces)) + file(first(white_pieces))) % 2
               = (rank(first(black_pieces)) + file(first(black_pieces))) % 2

\* Returns the castling rights after the three rules of the code, each of which
\* reads the board it is given at mv.from / mv.to.
update_castling_rights_after_move(position, mv) ==
    LET board == position.board
        cr0 == position.castling_rights
        cr1 == IF board[mv.from] = Cell("King", "White")
               THEN [cr0 EXCEPT !.white_kingside = FALSE, !.white_queenside = FALSE]
               ELSE IF board[mv.from] = Cell("King", "Black")
               THEN [cr0 EXCEPT !.black_kingside = FALSE, !.black_queenside = FALSE]
               ELSE cr0
        cr2 == IF board[mv.from] = Cell("Rook", "White") /\ mv.from = 0
               THEN [cr1 EXCEPT !.white_queenside = FALSE]
               ELSE IF board[mv.from] = Cell("Rook", "White") /\ mv.from = 7
               THEN [cr1 EXCEPT !.white_kingside = FALSE]
               ELSE IF board[mv.from] = Cell("Rook", "Black") /\ mv.from = 56
               THEN [cr1 EXCEPT !.black_queenside = FALSE]
               ELSE IF board[mv.from] = Cell("Rook", "Black") /\ mv.from = 63
               THEN [cr1 EXCEPT !.black_kingside = FALSE]
               ELSE cr1
    IN IF mv.to = 0 /\ board[mv.to] = Cell("Rook", "White")
       THEN [cr2 EXCEPT !.white_queenside = FALSE]
       ELSE IF mv.to = 7 /\ board[mv.to] = Cell("Rook", "White")
       THEN [cr2 EXCEPT !.white_kingside = FALSE]
       ELSE IF mv.to = 56 /\ board[mv.to] = Cell("Rook", "Black")
       THEN [cr2 EXCEPT !.black_queenside = FALSE]
       ELSE IF mv.to = 63 /\ board[mv.to] = Cell("Rook", "Black")
       THEN [cr2 EXCEPT !.black_kingside = FALSE]
       ELSE cr2

(***************************************************************************)
(* validation.rs                                                           *)
(***************************************************************************)
\* The rank of the pawn an en-passant move removes: u8 arithmetic, so below
\* rank 0 it wraps to 255 where overflow checks are off.
captured_pawn_rank(position, mv) ==
    IF position.side_to_move = "White" THEN (rank(mv.to) - 1) % 256 ELSE rank(mv.to) + 1

\* Where overflow checks are on, `mv.to.rank() - 1` panics instead of wrapping.
rank_underflows(position, mv) ==
    mv.is_en_passant /\ position.side_to_move = "White" /\ rank(mv.to) = 0

\* The board after apply_move_for_validation (it changes nothing else).
apply_move_for_validation(position, mv) ==
    LET b0 == position.board
        captured_square == from_rank_file(captured_pawn_rank(position, mv), file(mv.to))
        b1 == IF mv.is_en_passant /\ captured_square # NoSquare
              THEN set(b0, captured_square, NoPiece) ELSE b0
        rook_from == from_rank_file(rank(mv.from), IF file(mv.to) > file(mv.from) THEN 7 ELSE 0)
        rook_to == from_rank_file(rank(mv.from), IF file(mv.to) > file(mv.from) THEN 5 ELSE 3)
        b2 == IF mv.is_castling
              THEN set(set(b1, rook_from, NoPiece), rook_to, b1[rook_from]) ELSE b1
        piece == b2[mv.from]
        b3 == set(b2, mv.from, NoPiece)
    IN IF mv.promotion # "None"
       THEN (IF piece.piece # "None"
             THEN set(b3, mv.to, Cell(mv.promotion, piece.color)) ELSE b3)
       ELSE set(b3, mv.to, piece)

is_in_check_board(board, color) ==
    LET king_square == find_king(board, color)
    IN king_square # NoSquare /\ is_attacked_by(board, king_square, opposite(color))

is_in_check(position, color) == is_in_check_board(position.board, color)

can_castle_kingside(position, color) ==
    LET r == IF color = "White" THEN 0 ELSE 7
        board == position.board
        f_square == from_rank_file(r, 5)
        g_square == from_rank_file(r, 6)
    IN /\ can_castle(position.castling_rights, color, TRUE)
       /\ board[from_rank_file(r, 4)] = Cell("King", color)
       /\ board[from_rank_file(r, 7)] = Cell("Rook", color)
       /\ is_empty(board, f_square) /\ is_empty(board, g_square)
       /\ ~is_in_check(position, color)
       /\ ~is_attacked_by(board, f_square, opposite(color))
       /\ ~is_attacked_by(board, g_square, opposite(color))

\* can_castle_queenside without the test of the square the king passes over:
\* the fault C11 excludes.
can_castle_queenside_unchecked_path(position, color) ==
    LET r == IF color = "White" THEN 0 ELSE 7
        board == position.board
        c_square == from_rank_file(r, 2)
        d_square == from_rank_file(r, 3)
    IN /\ can_castle(position.castling_rights, color, FALSE)
       /\ board[from_rank_file(r, 4)] = Cell("King", color)
       /\ board[from_rank_file(r, 0)] = Cell("Rook", color)
       /\ is_empty(board, from_rank_file(r, 1))
       /\ is_empty(board, c_square) /\ is_empty(board, d_square)
       /\ ~is_in_check(position, color)
       /\ ~is_attacked_by(board, c_square, opposite(color))

can_castle_queenside(position, color) ==
    LET r == IF color = "White" THEN 0 ELSE 7
        board == position.board
        c_square == from_rank_file(r, 2)
        d_square == from_rank_file(r, 3)
    IN /\ can_castle(position.castling_rights, color, FALSE)
       /\ board[from_rank_file(r, 4)] = Cell("King", color)
       /\ board[from_rank_file(r, 0)] = Cell("Rook", color)
       /\ is_empty(board, from_rank_file(r, 1))
       /\ is_empty(board, c_square) /\ is_empty(board, d_square)
       /\ ~is_in_check(position, color)
       /\ ~is_attacked_by(board, d_square, opposite(color))
       /\ ~is_attacked_by(board, c_square, opposite(color))

\* is_legal_move without the king-safety test on ordinary moves: the fault C10
\* excludes.
is_legal_move_unchecked(position, mv) ==
    IF mv.is_castling
    THEN (IF file(mv.to) > file(mv.from)
          THEN can_castle_kingside(position, position.side_to_move)
          ELSE can_castle_queenside(position, position.side_to_move))
    ELSE TRUE

is_legal_move(position, mv) ==
    IF mv.is_castling
    THEN (IF file(mv.to) > file(mv.from)
          THEN can_castle_kingside(position, position.side_to_move)
          ELSE can_castle_queenside(position, position.side_to_move))
    ELSE ~is_in_check_board(apply_move_for_validation(position, mv), position.side_to_move)

generate_legal_moves(position) ==
    LET legal(mv) == is_legal_move(position, mv)
    IN SelectSeq(generate_pseudo_legal_moves(position), legal)

is_checkmate(position) ==
    is_in_check(position, position.side_to_move) /\ generate_legal_moves(position) = <<>>

is_stalemate(position) ==
    ~is_in_check(position, position.side_to_move) /\ generate_legal_moves(position) = <<>>

(***************************************************************************)
(* fen.rs.  A string is the sequence of its characters.                    *)
(***************************************************************************)
Ok(v) == [ok |-> TRUE, value |-> v]

Err == [ok |-> FALSE, value |-> <<>>]

\* Err(ChessError::InvalidFen { .. }) and Err(ChessError::InvalidSquare { .. })
InvalidFen == [ok |-> FALSE, value |-> "InvalidFen"]

InvalidSquare == [ok |-> FALSE, value |-> "InvalidSquare"]

DIGITS == <<"0", "1", "2", "3", "4", "5", "6", "7", "8", "9">>

FILE_CHARS == <<"a", "b", "c", "d", "e", "f", "g", "h">>

ASCII_LOWER ==
    <<"a", "b", "c", "d", "e", "f", "g", "h", "i", "j", "k", "l", "m",
      "n", "o", "p", "q", "r", "s", "t", "u", "v", "w", "x", "y", "z">>

ASCII_UPPER ==
    <<"A", "B", "C", "D", "E", "F", "G", "H", "I", "J", "K", "L", "M",
      "N", "O", "P", "Q", "R", "S", "T", "U", "V", "W", "X", "Y", "Z">>

is_ascii_digit(c) == \E i \in 1..10 : DIGITS[i] = c

digit_value(c) == (CHOOSE i \in 1..10 : DIGITS[i] = c) - 1

is_ascii_uppercase(c) == \E i \in 1..26 : ASCII_UPPER[i] = c

to_ascii_lowercase(c) ==
    IF is_ascii_uppercase(c) THEN ASCII_LOWER[CHOOSE i \in 1..26 : ASCII_UPPER[i] = c] ELSE c

to_ascii_uppercase(c) ==
    IF \E i \in 1..26 : ASCII_LOWER[i] = c
    THEN ASCII_UPPER[CHOOSE i \in 1..26 : ASCII_LOWER[i] = c] ELSE c

\* u32::to_string
RECURSIVE to_string(_)
to_string(n) ==
    IF n < 10 THEN <<DIGITS[n + 1]>> ELSE to_string(n \div 10) \o <<DIGITS[(n % 10) + 1]>>

\* Square::to_algebraic
to_algebraic(sq) == <<FILE_CHARS[file(sq) + 1], DIGITS[rank(sq) + 2]>>

\* Square::from_algebraic
from_algebraic(s) ==
    IF Len(s) # 2 THEN InvalidSquare
    ELSE IF ~(\E i \in 1..8 : FILE_CHARS[i] = s[1]) THEN InvalidSquare
    ELSE IF ~(is_ascii_digit(s[2]) /\ digit_value(s[2]) >= 1 /\ digit_value(s[2]) <= 8) THEN InvalidSquare
    ELSE Ok((digit_value(s[2]) - 1) * 8 + (CHOOSE i \in 1..8 : FILE_CHARS[i] = s[1]) - 1)

piece_to_fen_char(piece, color) ==
    LET c == CASE piece = "Pawn" -> "p" [] piece = "Knight" -> "n"
               [] piece = "Bishop" -> "b" [] piece = "Rook" -> "r"
               [] piece = "Queen" -> "q" [] piece = "King" -> "k"
    IN IF color = "White" THEN to_ascii_uppercase(c) ELSE c

\* None is NoPiece.
fen_char_to_piece(c) ==
    LET color == IF is_ascii_uppercase(c) THEN "White" ELSE "Black"
        l == to_ascii_lowercase(c)
    IN CASE l = "p" -> Cell("Pawn", color) [] l = "n" -> Cell("Knight", color)
         [] l = "b" -> Cell("Bishop", color) [] l = "r" -> Cell("Rook", color)
         [] l = "q" -> Cell("Queen", color) [] l = "k" -> Cell("King", color)
         [] OTHER -> NoPiece

is_whitespace(c) == c \in {" ", "\t", "\n"}

RECURSIVE split_whitespace_from(_, _, _)
split_whitespace_from(s, i, cur) ==
    LET done == IF cur = <<>> THEN <<>> ELSE <<cur>>
    IN IF i > Len(s) THEN done
       ELSE IF is_whitespace(s[i]) THEN done \o split_whitespace_from(s, i + 1, <<>>)
       ELSE split_whitespace_from(s, i + 1, Append(cur, s[i]))

split_whitespace(s) == split_whitespace_from(s, 1, <<>>)

RECURSIVE split_from(_, _, _, _)
split_from(s, sep, i, cur) ==
    IF i > Len(s) THEN <<cur>>
    ELSE IF s[i] = sep THEN <<cur>> \o split_from(s, sep, i + 1, <<>>)
    ELSE split_from(s, sep, i + 1, Append(cur, s[i]))

split(s, sep) == split_from(s, sep, 1, <<>>)

\* One rank of parse_piece_placement: the loop over rank_str.chars().
RECURSIVE parse_rank(_, _, _, _, _)
parse_rank(board, r, rank_str, i, f) ==
    IF i > Len(rank_str) THEN (IF f # 8 THEN InvalidFen ELSE Ok(board))
    ELSE IF f >= 8 THEN InvalidFen
    ELSE IF is_ascii_digit(rank_str[i])
    THEN (IF digit_value(rank_str[i]) \notin 1..8 THEN InvalidFen
          ELSE IF f + digit_value(rank_str[i]) > 8 THEN InvalidFen
          ELSE parse_rank(board, r, rank_str, i + 1, f + digit_value(rank_str[i])))
    ELSE IF fen_char_to_piece(rank_str[i]) = NoPiece THEN InvalidFen
    ELSE parse_rank(set(board, from_rank_file(r, f), fen_char_to_piece(rank_str[i])),
                    r, rank_str, i + 1, f + 1)

RECURSIVE parse_ranks(_, _, _)
parse_ranks(board, ranks, rank_index) ==
    IF rank_index > 7 THEN Ok(board)
    ELSE LET res == parse_rank(board, 7 - rank_index, ranks[rank_index + 1], 1, 0)
         IN IF res.ok THEN parse_ranks(res.value, ranks, rank_index + 1) ELSE InvalidFen

parse_piece_placement(board, placement) ==
    LET ranks == split(placement, "/")
    IN IF Len(ranks) # 8 THEN InvalidFen ELSE parse_ranks(board, ranks, 0)

parse_active_color(s) ==
    IF s = <<"w">> THEN Ok("White") ELSE IF s = <<"b">> THEN Ok("Black") ELSE InvalidFen

RECURSIVE parse_castling_chars(_, _, _)
parse_castling_chars(s, i, rights) ==
    IF i > Len(s) THEN Ok(rights)
    ELSE CASE s[i] = "K" -> parse_castling_chars(s, i + 1, [rights EXCEPT !.white_kingside = TRUE])
           [] s[i] = "Q" -> parse_castling_chars(s, i + 1, [rights EXCEPT !.white_queenside = TRUE])
           [] s[i] = "k" -> parse_castling_chars(s, i + 1, [rights EXCEPT !.black_kingside = TRUE])
           [] s[i] = "q" -> parse_castling_chars(s, i + 1, [rights EXCEPT !.black_queenside = TRUE])
           [] OTHER -> InvalidFen

parse_castling_rights(s) ==
    IF s = <<"-">> THEN Ok(CastlingRights_none) ELSE parse_castling_chars(s, 1, CastlingRights_none)

parse_en_passant(s) == IF s = <<"-">> THEN Ok(NoSquare) ELSE from_algebraic(s)

\* str::parse::<u32>: an optional '+', then one or more digits.  The value is
\* computed for up to MaxCounterDigits digits, which is all the inputs use.
MaxCounterDigits == 9

RECURSIVE digits_value(_, _, _)
digits_value(s, i, acc) ==
    IF i > Len(s) THEN acc ELSE digits_value(s, i + 1, acc * 10 + digit_value(s[i]))

parse_u32(s) ==
    LET body == IF Len(s) > 0 /\ s[1] = "+" THEN Tail(s) ELSE s
    IN IF body = <<>> \/ \E i \in 1..Len(body) : ~is_ascii_digit(body[i]) THEN InvalidFen
       ELSE IF Len(body) > MaxCounterDigits THEN InvalidFen
       ELSE Ok(digits_value(body, 1, 0))

validate_position(position) ==
    LET board == position.board
        kings(color) == Cardinality({i \in 0..63 : board[i] = Cell("King", color)})
        cr == position.castling_rights
        needs(flag, king_square, rook_square, color) ==
            flag => /\ board[king_square] = Cell("King", color)
                    /\ board[rook_square] = Cell("Rook", color)
    IN /\ kings("White") = 1
       /\ kings("Black") = 1
       /\ \A f \in 0..7 : board[from_rank_file(0, f)].piece # "Pawn"
                          /\ board[from_rank_file(7, f)].piece # "Pawn"
       /\ position.en_passant_target # NoSquare =>
             rank(position.en_passant_target)
               = (IF position.side_to_move = "White" THEN 5 ELSE 2)
       /\ needs(cr.white_kingside, 4, 7, "White")
       /\ needs(cr.white_queenside, 4, 0, "White")
       /\ needs(cr.black_kingside, 60, 63, "Black")
       /\ needs(cr.black_queenside, 60, 56, "Black")

parse_fen(fen) ==
    LET parts == split_whitespace(fen)
    IN IF Len(parts) # 6 THEN InvalidFen
       ELSE LET board == parse_piece_placement(EmptyBoard, parts[1])
                color == parse_active_color(parts[2])
                rights == parse_castling_rights(parts[3])
                ep == parse_en_passant(parts[4])
                halfmove == parse_u32(parts[5])
                fullmove == parse_u32(parts[6])
            IN IF ~board.ok THEN board
               ELSE IF ~color.ok THEN color
               ELSE IF ~rights.ok THEN rights
               ELSE IF ~ep.ok THEN ep
               ELSE IF ~halfmove.ok THEN halfmove
               ELSE IF ~fullmove.ok THEN fullmove
               ELSE LET position ==
                            [board |-> board.value, side_to_move |-> color.value,
                             castling_rights |-> rights.value,
                             en_passant_target |-> ep.value,
                             halfmove_clock |-> halfmove.value,
                             fullmove_number |-> fullmove.value,
                             position_history |-> <<>>]
                    IN IF ~validate_position(position) THEN InvalidFen
                       ELSE Ok([position EXCEPT
                                  !.position_history = <<compute_zobrist_hash(position)>>])

RECURSIVE fen_rank(_, _, _, _)
fen_rank(board, r, f, empty_count) ==
    LET flush == IF empty_count > 0 THEN to_string(empty_count) ELSE <<>>
    IN IF f > 7 THEN flush
       ELSE IF board[r * 8 + f].piece # "None"
       THEN flush \o <<piece_to_fen_char(board[r * 8 + f].piece, board[r * 8 + f].color)>>
                  \o fen_rank(board, r, f + 1, 0)
       ELSE fen_rank(board, r, f + 1, empty_count + 1)

RECURSIVE fen_ranks(_, _)
fen_ranks(board, r) ==
    fen_rank(board, r, 0, 0) \o (IF r > 0 THEN <<"/">> \o fen_ranks(board, r - 1) ELSE <<>>)

\* position_to_fen that never writes the en-passant target: the fault C18
\* excludes.
position_to_fen_without_target(position) ==
    LET cr == position.castling_rights
        castling == (IF cr.white_kingside THEN <<"K">> ELSE <<>>)
                    \o (IF cr.white_queenside THEN <<"Q">> ELSE <<>>)
                    \o (IF cr.black_kingside THEN <<"k">> ELSE <<>>)
                    \o (IF cr.black_queenside THEN <<"q">> ELSE <<>>)
    IN fen_ranks(position.board, 7)
       \o <<" ">> \o (IF position.side_to_move = "White" THEN <<"w">> ELSE <<"b">>)
       \o <<" ">> \o (IF castling = <<>> THEN <<"-">> ELSE castling)
       \o <<" ">> \o <<"-">>
       \o <<" ">> \o to_string(position.halfmove_clock)
       \o <<" ">> \o to_string(position.fullmove_number)

position_to_fen(position) ==
    LET cr == position.castling_rights
        castling == (IF cr.white_kingside THEN <<"K">> ELSE <<>>)
                    \o (IF cr.white_queenside THEN <<"Q">> ELSE <<>>)
                    \o (IF cr.black_kingside THEN <<"k">> ELSE <<>>)
                    \o (IF cr.black_queenside THEN <<"q">> ELSE <<>>)
    IN fen_ranks(position.board, 7)
       \o <<" ">> \o (IF position.side_to_move = "White" THEN <<"w">> ELSE <<"b">>)
       \o <<" ">> \o (IF castling = <<>> THEN <<"-">> ELSE castling)
       \o <<" ">> \o (IF position.en_passant_target # NoSquare
                      THEN to_algebraic(position.en_passant_target) ELSE <<"-">>)
       \o <<" ">> \o to_string(position.halfmove_clock)
       \o <<" ">> \o to_string(position.fullmove_number)

(***************************************************************************)
(* The encoded positions the games are loaded from.                        *)
(***************************************************************************)
\* "r3k3/8/8/8/8/8/8/R3K3 w Qq - 0 1": queenside rights on both sides; Ra1xa8 takes a rook on its home square
FEN_CASTLE ==
    <<"r", "3", "k", "3", "/", "8", "/", "8", "/", "8", "/", "8", "/", "8", "/", "8", "/", "R", "3", "K", "3", " ", "w", " ", "Q", "q", " ", "-", " ", "0", " ", "1">>

\* "1n2k3/P7/8/8/8/8/8/4K3 w - - 5 10": a7-a8 promotes without capture, a7xb8 with one
FEN_PROMOTE ==
    <<"1", "n", "2", "k", "3", "/", "P", "7", "/", "8", "/", "8", "/", "8", "/", "8", "/", "8", "/", "4", "K", "3", " ", "w", " ", "-", " ", "-", " ", "5", " ", "1", "0">>

\* "4k3/3p4/8/4P3/8/8/8/4K3 b - - 3 1": d7-d5 allows e5xd6 en passant
FEN_PAWNS ==
    <<"4", "k", "3", "/", "3", "p", "4", "/", "8", "/", "4", "P", "3", "/", "8", "/", "8", "/", "8", "/", "4", "K", "3", " ", "b", " ", "-", " ", "-", " ", "3", " ", "1">>

\* "6k1/6b1/8/8/3Q4/8/8/K7 w - - 0 1": tests.rs:529, the queen is pinned on the long diagonal
FEN_PIN ==
    <<"6", "k", "1", "/", "6", "b", "1", "/", "8", "/", "8", "/", "3", "Q", "4", "/", "8", "/", "8", "/", "K", "7", " ", "w", " ", "-", " ", "-", " ", "0", " ", "1">>

\* "8/8/8/8/k2Pp2Q/8/8/4K3 b - d3 0 1": tests.rs:545, e4xd3 en passant would expose the king
FEN_EP_PIN ==
    <<"8", "/", "8", "/", "8", "/", "8", "/", "k", "2", "P", "p", "2", "Q", "/", "8", "/", "8", "/", "4", "K", "3", " ", "b", " ", "-", " ", "d", "3", " ", "0", " ", "1">>

\* "R5k1/5ppp/8/8/8/8/8/7K b - - 100 60": tests.rs:585 with the halfmove clock at 100
FEN_MATED ==
    <<"R", "5", "k", "1", "/", "5", "p", "p", "p", "/", "8", "/", "8", "/", "8", "/", "8", "/", "8", "/", "7", "K", " ", "b", " ", "-", " ", "-", " ", "1", "0", "0", " ", "6", "0">>

\* "6k1/5ppp/8/8/8/8/8/R6K w - - 99 60": Ra1-a8 mates on the hundredth halfmove
FEN_MATE_IN_1 ==
    <<"6", "k", "1", "/", "5", "p", "p", "p", "/", "8", "/", "8", "/", "8", "/", "8", "/", "8", "/", "R", "6", "K", " ", "w", " ", "-", " ", "-", " ", "9", "9", " ", "6", "0">>

\* "k7/8/1Q6/8/8/8/8/K7 b - - 0 1": tests.rs:307
FEN_STALEMATE ==
    <<"k", "7", "/", "8", "/", "1", "Q", "6", "/", "8", "/", "8", "/", "8", "/", "8", "/", "K", "7", " ", "b", " ", "-", " ", "-", " ", "0", " ", "1">>

\* "k7/8/8/8/8/8/8/K7 w - - 0 1": tests.rs:473
FEN_KK ==
    <<"k", "7", "/", "8", "/", "8", "/", "8", "/", "8", "/", "8", "/", "8", "/", "K", "7", " ", "w", " ", "-", " ", "-", " ", "0", " ", "1">>

\* "k7/8/8/8/8/8/P7/K7 w - - 99 80": one quiet ply from the fifty-move rule
FEN_FIFTY ==
    <<"k", "7", "/", "8", "/", "8", "/", "8", "/", "8", "/", "8", "/", "P", "7", "/", "K", "7", " ", "w", " ", "-", " ", "-", " ", "9", "9", " ", "8", "0">>

\* "R5k1/8/8/8/8/8/8/K7 b - - 0 1": Kg8-g7 Ra8-a7+ Kg7-g8 Ra7-a8+ repeats a position with Black in check
FEN_PERPETUAL ==
    <<"R", "5", "k", "1", "/", "8", "/", "8", "/", "8", "/", "8", "/", "8", "/", "8", "/", "K", "7", " ", "b", " ", "-", " ", "-", " ", "0", " ", "1">>

\* "4k3/8/8/3pP3/8/8/8/4K3 w - d6 0 1": e5xd6 en passant is legal
FEN_EP ==
    <<"4", "k", "3", "/", "8", "/", "8", "/", "3", "p", "P", "3", "/", "8", "/", "8", "/", "8", "/", "4", "K", "3", " ", "w", " ", "-", " ", "d", "6", " ", "0", " ", "1">>

\* "4k3/3p4/8/K3P2r/8/8/8/8 b - - 0 1": after d7-d5, e5xd6 en passant would open the fifth rank onto the king
FEN_EP_PUSH ==
    <<"4", "k", "3", "/", "3", "p", "4", "/", "8", "/", "K", "3", "P", "2", "r", "/", "8", "/", "8", "/", "8", "/", "8", " ", "b", " ", "-", " ", "-", " ", "0", " ", "1">>

\* "r3k2r/8/8/8/8/8/8/R2QK2R b KQkq - 0 1": tests.rs:232, the queen on d1 attacks d8
FEN_CASTLE_THROUGH ==
    <<"r", "3", "k", "2", "r", "/", "8", "/", "8", "/", "8", "/", "8", "/", "8", "/", "8", "/", "R", "2", "Q", "K", "2", "R", " ", "b", " ", "K", "Q", "k", "q", " ", "-", " ", "0", " ", "1">>

\* "R5k1/8/8/8/8/8/8/K7 b - - 92 50": FEN_PERPETUAL with the clock eight plies short of 100
FEN_PERPETUAL_92 ==
    <<"R", "5", "k", "1", "/", "8", "/", "8", "/", "8", "/", "8", "/", "8", "/", "8", "/", "K", "7", " ", "b", " ", "-", " ", "-", " ", "9", "2", " ", "5", "0">>

\* "R5k1/8/8/8/8/8/8/K7 w - - 0 1": FEN_PERPETUAL with White to move, so the rook attacks the king of the side that is not to move
FEN_KING_EN_PRISE ==
    <<"R", "5", "k", "1", "/", "8", "/", "8", "/", "8", "/", "8", "/", "8", "/", "8", "/", "K", "7", " ", "w", " ", "-", " ", "-", " ", "0", " ", "1">>

\* "4k3/8/8/3P4/8/8/8/4K3 w - e6 0 1": an en-passant target on e6 with no black pawn on e5
FEN_EP_NO_PAWN ==
    <<"4", "k", "3", "/", "8", "/", "8", "/", "3", "P", "4", "/", "8", "/", "8", "/", "8", "/", "4", "K", "3", " ", "w", " ", "-", " ", "e", "6", " ", "0", " ", "1">>

FENS == {FEN_CASTLE, FEN_CASTLE_THROUGH, FEN_PROMOTE, FEN_PAWNS, FEN_PIN, FEN_EP_PIN, FEN_EP, FEN_EP_PUSH, FEN_MATED, FEN_MATE_IN_1, FEN_STALEMATE, FEN_KK, FEN_FIFTY, FEN_PERPETUAL, FEN_PERPETUAL_92, FEN_KING_EN_PRISE, FEN_EP_NO_PAWN}

(***************************************************************************)
(* types.rs: Move::to_uci, GameStatus                                      *)
(***************************************************************************)
\* Move::to_uci panics on a promotion piece other than Queen/Rook/Bishop/Knight.
to_uci_panics(mv) == mv.promotion \in {"Pawn", "King"}

to_uci(mv) ==
    to_algebraic(mv.from) \o to_algebraic(mv.to)
    \o (CASE mv.promotion = "Queen" -> <<"q">> [] mv.promotion = "Rook" -> <<"r">>
          [] mv.promotion = "Bishop" -> <<"b">> [] mv.promotion = "Knight" -> <<"n">>
          [] OTHER -> <<>>)

Status(t) == [type |-> t, winner |-> "None"]

Checkmate(winner) == [type |-> "Checkmate", winner |-> winner]

(***************************************************************************)
(* game.rs: ChessGame                                                      *)
(***************************************************************************)
\* The status with the fifty-move test placed first: the fault C8 excludes.
compute_game_status_fifty_first(position) ==
    IF position.halfmove_clock >= 100 THEN Status("DrawByFiftyMoveRule")
    ELSE IF is_checkmate(position) THEN Checkmate(opposite(position.side_to_move))
    ELSE IF is_stalemate(position) THEN Status("Stalemate")
    ELSE IF has_insufficient_material(position) THEN Status("DrawByInsufficientMaterial")
    ELSE IF is_repetition(position) THEN Status("DrawByRepetition")
    ELSE IF is_in_check(position, position.side_to_move) THEN Status("Check")
    ELSE Status("InProgress")

compute_game_status_static(position) ==
    IF is_checkmate(position) THEN Checkmate(opposite(position.side_to_move))
    ELSE IF is_stalemate(position) THEN Status("Stalemate")
    ELSE IF position.halfmove_clock >= 100 THEN Status("DrawByFiftyMoveRule")
    ELSE IF has_insufficient_material(position) THEN Status("DrawByInsufficientMaterial")
    ELSE IF is_repetition(position) THEN Status("DrawByRepetition")
    ELSE IF is_in_check(position, position.side_to_move) THEN Status("Check")
    ELSE Status("InProgress")

ChessGame(position) ==
    [position |-> position, move_history |-> <<>>, position_snapshots |-> <<>>,
     status |-> compute_game_status_static(position)]

ChessGame_new == ChessGame(Position_new)

ChessGame_from_fen(fen) ==
    LET parsed == parse_fen(fen)
    IN IF parsed.ok THEN Ok(ChessGame(parsed.value)) ELSE parsed

\* matches!(self.status, GameStatus::InProgress | GameStatus::Check)
is_playable(status) == status.type \in {"InProgress", "Check"}

\* get_legal_moves without the test of the status: the fault C16 excludes.
get_legal_moves_ignoring_status(game) == generate_legal_moves(game.position)

get_legal_moves(game) ==
    IF ~is_playable(game.status) THEN <<>> ELSE generate_legal_moves(game.position)

get_legal_moves_for_square(game, square) ==
    LET from_square(mv) == mv.from = square
    IN SelectSeq(get_legal_moves(game), from_square)

to_fen(game) == position_to_fen(game.position)

\* The board after apply_normal_move.
apply_normal_move(position, mv) ==
    LET piece == position.board[mv.from]
        b1 == set(position.board, mv.from, NoPiece)
    IN IF mv.promotion # "None"
       THEN (IF piece.piece # "None"
             THEN set(b1, mv.to, Cell(mv.promotion, piece.color)) ELSE b1)
       ELSE set(b1, mv.to, piece)

\* Ok(the board after castling), or Err before any cell is written.
apply_castling(position, mv) ==
    LET board == position.board
        r == rank(mv.from)
        king == board[mv.from]
        kingside == file(mv.to) > file(mv.from)
        rook_from == from_rank_file(r, IF kingside THEN 7 ELSE 0)
        rook_to == from_rank_file(r, IF kingside THEN 5 ELSE 3)
        rook == board[rook_from]
    IN IF king.piece # "King" THEN Err
       ELSE IF rook # Cell("Rook", king.color) THEN Err
       ELSE Ok(set(set(set(set(board, mv.from, NoPiece), mv.to, king),
                       rook_from, NoPiece), rook_to, rook))

\* The board after apply_en_passant.
apply_en_passant(position, mv) ==
    LET pawn == position.board[mv.from]
        b1 == set(set(position.board, mv.from, NoPiece), mv.to, pawn)
        captured_square == from_rank_file(captured_pawn_rank(position, mv), file(mv.to))
    IN IF captured_square # NoSquare THEN set(b1, captured_square, NoPiece) ELSE b1

\* The en-passant target after update_en_passant_target; position holds the
\* board after the move.
update_en_passant_target(position, mv) ==
    LET from_rank == rank(mv.from)
        to_rank == rank(mv.to)
        abs_diff == IF from_rank > to_rank THEN from_rank - to_rank ELSE to_rank - from_rank
    IN IF position.board[mv.to].piece = "Pawn" /\ abs_diff = 2
       THEN from_rank_file((from_rank + to_rank) \div 2, file(mv.from))
       ELSE NoSquare

\* The halfmove clock after update_halfmove_clock; position holds the board
\* after the move, position_snapshots the stack with the pre-move position on top.
update_halfmove_clock(position, position_snapshots, mv) ==
    LET is_pawn_move == position.board[mv.to].piece = "Pawn"
        is_capture == (IF position_snapshots # <<>>
                       THEN Last(position_snapshots).board[mv.to].piece # "None"
                       ELSE FALSE) \/ mv.is_en_passant
    IN IF is_pawn_move \/ is_capture THEN 0 ELSE position.halfmove_clock + 1

\* The move's board effect, by the branch apply_move_to_position takes:
\* Ok(the board after it), or Err when apply_castling fails.
apply_board_effect(position, mv) ==
    IF mv.is_castling THEN apply_castling(position, mv)
    ELSE IF mv.is_en_passant THEN Ok(apply_en_passant(position, mv))
    ELSE Ok(apply_normal_move(position, mv))

\* apply_move_to_position that switches the side to move before it tests for
\* Black's move, so the move number grows after White's moves: the fault C13
\* excludes.
apply_move_to_position_flip_first(game, mv) ==
    LET p0 == game.position
        applied == apply_board_effect(p0, mv)
    IN IF ~applied.ok THEN Err
       ELSE LET p1 == [p0 EXCEPT !.board = applied.value]
                p2 == [p1 EXCEPT !.castling_rights = update_castling_rights_after_move(p1, mv)]
                p3 == [p2 EXCEPT !.en_passant_target = update_en_passant_target(p2, mv)]
                p4 == [p3 EXCEPT !.halfmove_clock =
                                    update_halfmove_clock(p3, game.position_snapshots, mv)]
                p5 == [p4 EXCEPT !.side_to_move = opposite(@)]
                p6 == IF p5.side_to_move = "Black"
                      THEN [p5 EXCEPT !.fullmove_number = @ + 1] ELSE p5
            IN Ok([p6 EXCEPT !.position_history = Append(@, compute_zobrist_hash(p6))])

\* apply_move_to_position that records the hash before the side to move is
\* switched: the fault C28 excludes.
apply_move_to_position_hash_before_flip(game, mv) ==
    LET p0 == game.position
        applied == apply_board_effect(p0, mv)
    IN IF ~applied.ok THEN Err
       ELSE LET p1 == [p0 EXCEPT !.board = applied.value]
                p2 == [p1 EXCEPT !.castling_rights = update_castling_rights_after_move(p1, mv)]
                p3 == [p2 EXCEPT !.en_passant_target = update_en_passant_target(p2, mv)]
                p4 == [p3 EXCEPT !.halfmove_clock =
                                    update_halfmove_clock(p3, game.position_snapshots, mv)]
                p5 == IF p4.side_to_move = "Black"
                      THEN [p4 EXCEPT !.fullmove_number = @ + 1] ELSE p4
                p6 == [p5 EXCEPT !.position_history = Append(@, compute_zobrist_hash(p5))]
            IN Ok([p6 EXCEPT !.side_to_move = opposite(@)])

\* game is the ChessGame with the snapshot already pushed.  Ok(the new
\* position) or Err with nothing changed.
apply_move_to_position(game, mv) ==
    LET p0 == game.position
        applied == apply_board_effect(p0, mv)
    IN IF ~applied.ok THEN Err
       ELSE LET p1 == [p0 EXCEPT !.board = applied.value]
                p2 == [p1 EXCEPT !.castling_rights = update_castling_rights_after_move(p1, mv)]
                p3 == [p2 EXCEPT !.en_passant_target = update_en_passant_target(p2, mv)]
                p4 == [p3 EXCEPT !.halfmove_clock =
                                    update_halfmove_clock(p3, game.position_snapshots, mv)]
                p5 == IF p4.side_to_move = "Black"
                      THEN [p4 EXCEPT !.fullmove_number = @ + 1] ELSE p4
                p6 == [p5 EXCEPT !.side_to_move = opposite(@)]
            IN Ok([p6 EXCEPT !.position_history = Append(@, compute_zobrist_hash(p6))])

Outcome(result, game) == [result |-> result, game |-> game]

\* make_move that leaves the pushed snapshot on the stack when applying the
\* move fails: the fault C2 excludes.
make_move_keeping_snapshot(game, mv) ==
    IF ~is_playable(game.status) THEN Outcome("GameOver", game)
    ELSE IF ~is_legal_move(game.position, mv)
    THEN (IF to_uci_panics(mv) THEN Outcome("Panic", game) ELSE Outcome("InvalidMove", game))
    ELSE LET pushed == [game EXCEPT !.position_snapshots = Append(@, game.position)]
             applied == apply_move_to_position(pushed, mv)
         IN IF ~applied.ok
            THEN Outcome("InvalidMove", pushed)
            ELSE LET moved == [pushed EXCEPT !.position = applied.value,
                                             !.move_history = Append(@, mv)]
                 IN Outcome("Ok", [moved EXCEPT
                                     !.status = compute_game_status_static(moved.position)])

\* ChessGame::make_move: the Result it returns ("Ok", "GameOver", "InvalidMove")
\* or "Panic" when formatting the rejected move panics, and the game afterwards.
make_move(game, mv) ==
    IF ~is_playable(game.status) THEN Outcome("GameOver", game)
    ELSE IF ~is_legal_move(game.position, mv)
    THEN (IF to_uci_panics(mv) THEN Outcome("Panic", game) ELSE Outcome("InvalidMove", game))
    ELSE LET pushed == [game EXCEPT !.position_snapshots = Append(@, game.position)]
             applied == apply_move_to_position(pushed, mv)
         IN IF ~applied.ok
            THEN Outcome("InvalidMove", [pushed EXCEPT !.position_snapshots = Front(@)])
            ELSE LET moved == [pushed EXCEPT !.position = applied.value,
                                             !.move_history = Append(@, mv)]
                 IN Outcome("Ok", [moved EXCEPT
                                     !.status = compute_game_status_static(moved.position)])

\* undo_move that pops both stacks and keeps the current position: the fault
\* C1 excludes.
undo_move_keeping_position(game) ==
    IF game.position_snapshots = <<>> THEN Outcome("InvalidMove", game)
    ELSE LET popped == [game EXCEPT !.position_snapshots = Front(@),
                                    !.move_history = Front(@)]
         IN Outcome("Ok", [popped EXCEPT
                             !.status = compute_game_status_static(popped.position)])

\* undo_move that restores the position and keeps the stored status: the fault
\* C9 excludes.
undo_move_stale_status(game) ==
    IF game.position_snapshots = <<>> THEN Outcome("InvalidMove", game)
    ELSE Outcome("Ok", [game EXCEPT !.position = Last(game.position_snapshots),
                                    !.position_snapshots = Front(@),
                                    !.move_history = Front(@)])

\* undo_move that reports success when there is nothing to undo: the fault C15
\* excludes.
undo_move_silent_on_empty(game) ==
    IF game.position_snapshots = <<>> THEN Outcome("Ok", game)
    ELSE LET restored == [game EXCEPT !.position = Last(game.position_snapshots),
                                      !.position_snapshots = Front(@),
                                      !.move_history = Front(@)]
         IN Outcome("Ok", [restored EXCEPT
                             !.status = compute_game_status_static(restored.position)])

\* undo_move that refuses, as make_move does, once the game is over: the fault
\* C29 excludes.
undo_move_refusing_terminal(game) ==
    IF ~is_playable(game.status) THEN Outcome("GameOver", game)
    ELSE IF game.position_snapshots = <<>> THEN Outcome("InvalidMove", game)
    ELSE LET restored == [game EXCEPT !.position = Last(game.position_snapshots),
                                      !.position_snapshots = Front(@),
                                      !.move_history = Front(@)]
         IN Outcome("Ok", [restored EXCEPT
                             !.status = compute_game_status_static(restored.position)])

\* ChessGame::undo_move
undo_move(game) ==
    IF game.position_snapshots = <<>> THEN Outcome("InvalidMove", game)
    ELSE LET restored == [game EXCEPT !.position = Last(game.position_snapshots),
                                      !.position_snapshots = Front(@),
                                      !.move_history = Front(@)]
         IN Outcome("Ok", [restored EXCEPT
                             !.status = compute_game_status_static(restored.position)])

\* make_move where the build decides: with overflow checks on, the rank
\* subtraction of validation.rs:40 panics before anything is written; with them
\* off it wraps and the call goes on.
make_move_outcomes(game, mv) ==
    IF is_playable(game.status) /\ ~mv.is_castling /\ rank_underflows(game.position, mv)
    THEN {Outcome("Panic", game), make_move(game, mv)}
    ELSE {make_move(game, mv)}

(***************************************************************************)
(* The game under test and its callers                                     *)
(***************************************************************************)
VARIABLES
    game,   \* the ChessGame
    last,   \* the last call made on it: operation, result, move given
    fens,   \* to_fen() as read by the caller before each applied, not undone move
    fen,    \* the string given to from_fen, empty if the game came from new()
    perft,  \* the perft call of the test under way: depth asked, call stack, result
    mutex,  \* the caller that holds the lock of Mutex<ChessGame>, or NoCaller
    callers \* each caller of the commands: where its command stands, its locals

vars == <<game, last, fens, fen, perft, mutex, callers>>

\* Plies from the loaded position within which every pseudo-legal move and
\* every probe move is tried.
MaxPly == 1

\* Plies from the loaded position within which the moves of LineSteps are tried.
MaxLinePly == 8

NoMove == NewMove(NoSquare, NoSquare)

\* The value perft() has not returned yet.
NoResult == -1

\* No perft test is running.
PerftIdle == [depth |-> 0, stack |-> <<>>, result |-> NoResult]

\* No command is under way: the lock is free and there is no caller.
NoCaller == 0

Call(op, result, mv) == [op |-> op, result |-> result, mv |-> mv]

\* Moves no generator produces: e1g1 flagged castling; d4c4 flagged castling
\* (no king on d4); d4d5 promoting to a king; d4d1 flagged en passant; a1a3
\* promoting to a pawn.
ProbeMoves ==
    {[NewMove(4, 6) EXCEPT !.is_castling = TRUE],
     [NewMove(0, 16) EXCEPT !.promotion = "Pawn"],
     [NewMove(27, 26) EXCEPT !.is_castling = TRUE],
     [NewMove(27, 35) EXCEPT !.promotion = "King"],
     [NewMove(27, 3) EXCEPT !.is_en_passant = TRUE]}

\* <<from, to>> of the rook checks and king steps g8g7, a8a7, g7g8, a7a8 that
\* repeat the position of FEN_PERPETUAL.
LineSteps == {<<62, 54>>, <<56, 48>>, <<54, 62>>, <<48, 56>>}

\* <<from, to>> of the king steps e1e2, e8e7, e2e1, e7e8 that take both kings
\* off their home squares and back.
KingSteps == {<<4, 12>>, <<60, 52>>, <<12, 4>>, <<52, 60>>}

SeqToSet(s) == {s[i] : i \in 1..Len(s)}

\* Every move applied so far is a king step of KingSteps.
OnKingLine(g) ==
    \A i \in 1..Len(g.move_history) :
        <<g.move_history[i].from, g.move_history[i].to>> \in KingSteps

Inputs(g) ==
    LET plies == Len(g.move_history)
        pseudo == SeqToSet(generate_pseudo_legal_moves(g.position))
        terminal_probes == IF is_playable(g.status) THEN {} ELSE ProbeMoves
        line == {mv \in pseudo : <<mv.from, mv.to>> \in LineSteps}
        king_line == IF OnKingLine(g)
                     THEN {mv \in pseudo : <<mv.from, mv.to>> \in KingSteps /\ ~mv.is_castling}
                     ELSE {}
    IN IF plies < MaxPly THEN pseudo \cup ProbeMoves
       ELSE IF plies < MaxLinePly THEN line \cup king_line \cup terminal_probes
       ELSE terminal_probes

Init ==
    /\ fen \in {<<>>} \cup FENS
    /\ game = IF fen = <<>> THEN ChessGame_new ELSE ChessGame_from_fen(fen).value
    /\ last = Call("new", "Ok", NoMove)
    /\ fens = <<>>
    /\ perft = PerftIdle
    /\ mutex = NoCaller
    /\ callers = <<>>

MakeMove ==
    \E mv \in Inputs(game) :
        \E out \in make_move_outcomes(game, mv) :
            /\ game' = out.game
            /\ last' = Call("make_move", out.result, mv)
            /\ fens' = IF out.result = "Ok" THEN Append(fens, to_fen(game)) ELSE fens
            /\ UNCHANGED <<fen, perft, mutex, callers>>

UndoMove ==
    \E out \in {undo_move(game)} :
        /\ game' = out.game
        /\ last' = Call("undo_move", out.result, NoMove)
        /\ fens' = IF out.result = "Ok" THEN Front(fens) ELSE fens
        /\ UNCHANGED <<fen, perft, mutex, callers>>

Next == MakeMove \/ UndoMove

Spec == Init /\ [][Next]_vars

(***************************************************************************)
(* The decoder under test: from_fen is given one string.                   *)
(***************************************************************************)
\* fen.rs: STARTING_FEN
STARTING_FEN ==
    <<"r", "n", "b", "q", "k", "b", "n", "r", "/", "p", "p", "p", "p", "p", "p", "p", "p", "/", "8", "/", "8", "/", "8", "/", "8", "/", "P", "P", "P", "P", "P", "P", "P", "P", "/", "R", "N", "B", "Q", "K", "B", "N", "R", " ", "w", " ", "K", "Q", "k", "q", " ", "-", " ", "0", " ", "1">>

\* Piece placements given in place of a loaded position's: well-formed ones,
\* among them one that writes eight empty squares as 44, and ones with seven
\* or nine ranks, a rank of seven or nine files, a digit 9, a letter that is no
\* piece, no or two kings of a colour, and a pawn on the first or last rank.
PlacementFields ==
    {<<"4", "k", "3", "/", "8", "/", "8", "/", "8", "/", "8", "/", "8", "/", "8", "/", "4", "K", "3">>,
     <<"r", "n", "b", "q", "k", "b", "n", "r", "/", "p", "p", "p", "p", "p", "p", "p", "p", "/", "4", "4", "/", "8", "/", "8", "/", "8", "/", "P", "P", "P", "P", "P", "P", "P", "P", "/", "R", "N", "B", "Q", "K", "B", "N", "R">>,
     <<"r", "3", "k", "2", "r", "/", "8", "/", "8", "/", "8", "/", "8", "/", "8", "/", "8", "/", "R", "3", "K", "2", "R">>,
     <<"4", "k", "3", "/", "8", "/", "8", "/", "8", "/", "8", "/", "8", "/", "8", "/", "R", "3", "K", "2", "R">>,
     <<"r", "3", "k", "2", "r", "/", "8", "/", "8", "/", "8", "/", "8", "/", "8", "/", "8", "/", "4", "K", "3">>,
     <<"r", "2", "k", "3", "r", "/", "8", "/", "8", "/", "8", "/", "8", "/", "8", "/", "8", "/", "R", "2", "K", "3", "R">>,
     <<"r", "3", "k", "2", "r", "/", "8", "/", "8", "/", "8", "/", "8", "/", "8", "/", "8", "/", "r", "3", "K", "2", "r">>,
     <<"8", "/", "8", "/", "8", "/", "8", "/", "8", "/", "8", "/", "4", "K", "2", "k">>,
     <<"4", "k", "3", "/", "8", "/", "8", "/", "8", "/", "8", "/", "8", "/", "8", "/", "8", "/", "4", "K", "3">>,
     <<"4", "k", "2", "/", "8", "/", "8", "/", "8", "/", "8", "/", "8", "/", "8", "/", "4", "K", "3">>,
     <<"4", "k", "4", "/", "8", "/", "8", "/", "8", "/", "8", "/", "8", "/", "8", "/", "4", "K", "3">>,
     <<"4", "k", "3", "/", "9", "/", "8", "/", "8", "/", "8", "/", "8", "/", "8", "/", "4", "K", "3">>,
     <<"4", "k", "3", "/", "p", "p", "p", "p", "p", "p", "p", "p", "p", "/", "8", "/", "8", "/", "8", "/", "8", "/", "8", "/", "4", "K", "3">>,
     <<"4", "k", "3", "/", "8", "/", "8", "/", "8", "/", "8", "/", "8", "/", "8", "/", "4", "X", "3">>,
     <<"4", "k", "3", "/", "8", "/", "8", "/", "8", "/", "8", "/", "8", "/", "8", "/", "8">>,
     <<"8", "/", "8", "/", "8", "/", "8", "/", "8", "/", "8", "/", "8", "/", "4", "K", "3">>,
     <<"8", "/", "8", "/", "8", "/", "8", "/", "8", "/", "8", "/", "8", "/", "8">>,
     <<"4", "k", "3", "/", "8", "/", "8", "/", "8", "/", "8", "/", "8", "/", "8", "/", "3", "K", "K", "3">>,
     <<"3", "k", "k", "3", "/", "8", "/", "8", "/", "8", "/", "8", "/", "8", "/", "8", "/", "4", "K", "3">>,
     <<"4", "k", "3", "/", "8", "/", "8", "/", "8", "/", "8", "/", "8", "/", "8", "/", "P", "3", "K", "3">>,
     <<"4", "k", "3", "/", "8", "/", "8", "/", "8", "/", "8", "/", "8", "/", "8", "/", "p", "3", "K", "3">>,
     <<"p", "3", "k", "3", "/", "8", "/", "8", "/", "8", "/", "8", "/", "8", "/", "8", "/", "4", "K", "3">>,
     <<"P", "3", "k", "3", "/", "8", "/", "8", "/", "8", "/", "8", "/", "8", "/", "8", "/", "4", "K", "3">>}

\* Active-colour fields.
ColorFields ==
    {<<"w">>,
     <<"b">>,
     <<"W">>,
     <<"x">>}

\* Castling fields: in the order KQkq, out of it, with a repeat, with a
\* letter that is no right.
CastlingFields ==
    {<<"-">>,
     <<"K">>,
     <<"Q">>,
     <<"k">>,
     <<"q">>,
     <<"K", "Q">>,
     <<"k", "q">>,
     <<"Q", "q">>,
     <<"K", "Q", "k", "q">>,
     <<"Q", "K">>,
     <<"q", "k", "Q", "K">>,
     <<"K", "K">>,
     <<"K", "-">>,
     <<"x">>}

\* En-passant fields: squares of the third and sixth rank, of other ranks,
\* and strings that name no square.
EnPassantFields ==
    {<<"-">>,
     <<"a", "3">>,
     <<"e", "3">>,
     <<"h", "3">>,
     <<"a", "6">>,
     <<"d", "6">>,
     <<"h", "6">>,
     <<"e", "4">>,
     <<"e", "5">>,
     <<"e", "1">>,
     <<"e", "8">>,
     <<"e", "9">>,
     <<"e", "0">>,
     <<"i", "3">>,
     <<"z", "z">>,
     <<"E", "3">>,
     <<"e">>,
     <<"e", "3", "3">>}

\* Counter fields: plain numbers, with leading zeros, with a sign, and
\* strings that are no number.
CounterFields ==
    {<<"0">>,
     <<"1">>,
     <<"5">>,
     <<"1", "0">>,
     <<"5", "0">>,
     <<"9", "9">>,
     <<"1", "0", "0">>,
     <<"0", "0", "7">>,
     <<"0", "0">>,
     <<"+", "5">>,
     <<"+", "0">>,
     <<"-", "1">>,
     <<"x">>,
     <<"5", "x">>,
     <<"+">>,
     <<"9", "9", "9", "9", "9", "9", "9", "9", "9">>}


\* tests.rs:345, the string of test_fen_round_trip
FEN_ROUND_TRIP ==
    <<"r", "3", "k", "2", "r", "/", "p", "1", "p", "p", "q", "p", "b", "1", "/", "b", "n", "2", "p", "n", "p", "1", "/", "3", "P", "N", "3", "/", "1", "p", "2", "P", "3", "/", "2", "N", "2", "Q", "1", "p", "/", "P", "P", "P", "B", "B", "P", "P", "P", "/", "R", "3", "K", "2", "R", " ", "w", " ", "K", "Q", "k", "q", " ", "-", " ", "0", " ", "1">>

\* tests.rs:365, the string of test_fen_with_en_passant
FEN_AFTER_E4 ==
    <<"r", "n", "b", "q", "k", "b", "n", "r", "/", "p", "p", "p", "p", "p", "p", "p", "p", "/", "8", "/", "8", "/", "4", "P", "3", "/", "8", "/", "P", "P", "P", "P", "1", "P", "P", "P", "/", "R", "N", "B", "Q", "K", "B", "N", "R", " ", "b", " ", "K", "Q", "k", "q", " ", "e", "3", " ", "0", " ", "1">>

\* The six fields of the encoded positions the variants are made from.
BaseFields ==
    {split_whitespace(f) : f \in FENS \cup {STARTING_FEN, FEN_ROUND_TRIP, FEN_AFTER_E4}}

\* The fields joined into one string with sep between them.
RECURSIVE JoinWith(_, _)
JoinWith(fields, sep) ==
    IF fields = <<>> THEN <<>>
    ELSE IF Len(fields) = 1 THEN fields[1]
    ELSE fields[1] \o sep \o JoinWith(Tail(fields), sep)

\* b with one of its fields replaced.
OneFieldVariants(b) ==
    {[b EXCEPT ![1] = x] : x \in PlacementFields}
    \cup {[b EXCEPT ![2] = x] : x \in ColorFields}
    \cup {[b EXCEPT ![3] = x] : x \in CastlingFields}
    \cup {[b EXCEPT ![4] = x] : x \in EnPassantFields}
    \cup {[b EXCEPT ![5] = x] : x \in CounterFields}
    \cup {[b EXCEPT ![6] = x] : x \in CounterFields}

\* b with its placement and its en-passant field replaced.
TwoFieldVariants(b) ==
    {[b EXCEPT ![1] = x, ![4] = y] : x \in PlacementFields, y \in EnPassantFields}

\* b with a field less or more, and no field at all.
FieldCountVariants(b) == {SubSeq(b, 1, 5), Append(b, <<"1">>), SubSeq(b, 1, 1), <<>>}

FieldLists ==
    BaseFields
    \cup UNION {OneFieldVariants(b) \cup FieldCountVariants(b) : b \in BaseFields}
    \cup UNION {TwoFieldVariants(split_whitespace(f)) : f \in {STARTING_FEN, FEN_EP}}

\* b written with other white space than one space between its fields.
SpacingVariants(b) ==
    {JoinWith(b, <<" ", " ">>), JoinWith(b, <<"\t">>),
     <<" ">> \o JoinWith(b, <<" ">>), JoinWith(b, <<" ">>) \o <<" ">>,
     JoinWith(b, <<" ">>) \o <<"\n">>}

\* The most pieces besides the kings in a board of MaterialBoards.
MaxExtraPieces == 2

\* c3, d3, c4, d4: two squares of each parity of rank + file.
MaterialSquares == {18, 19, 26, 27}

MaterialCells ==
    {Cell(p, c) : p \in {"Pawn", "Knight", "Bishop", "Rook", "Queen"}, c \in {"White", "Black"}}

\* The kings on e1 and e8 and up to MaxExtraPieces pieces on MaterialSquares.
MaterialBoards ==
    {[sq \in 0..63 |-> IF sq = 4 THEN Cell("King", "White")
                       ELSE IF sq = 60 THEN Cell("King", "Black")
                       ELSE IF sq \in MaterialSquares THEN x[sq] ELSE NoPiece] :
        x \in {y \in [MaterialSquares -> MaterialCells \cup {NoPiece}] :
                  Cardinality({sq \in MaterialSquares : y[sq] # NoPiece}) <= MaxExtraPieces}}

MaterialFens == {position_to_fen([Position_empty EXCEPT !.board = b]) : b \in MaterialBoards}

FenInputs ==
    {JoinWith(l, <<" ">>) : l \in FieldLists}
    \cup UNION {SpacingVariants(b) : b \in BaseFields}
    \cup MaterialFens

FenInit ==
    /\ fen \in FenInputs
    /\ game = ChessGame_new
    /\ last = Call("new", "Ok", NoMove)
    /\ fens = <<>>
    /\ perft = PerftIdle
    /\ mutex = NoCaller
    /\ callers = <<>>

\* load_fen: the game is replaced if from_fen succeeds and kept if it fails.
FromFen ==
    /\ last.op = "new"
    /\ LET loaded == ChessGame_from_fen(fen)
       IN /\ game' = IF loaded.ok THEN loaded.value ELSE game
          /\ last' = Call("from_fen", IF loaded.ok THEN "Ok" ELSE loaded.value, NoMove)
    /\ UNCHANGED <<fens, fen, perft, mutex, callers>>

FenNext == FromFen

FenSpec == FenInit /\ [][FenNext]_vars

(***************************************************************************)
(* tests.rs: perft and the four tests that call it on Position::new()      *)
(***************************************************************************)
\* The position after apply_move_for_perft: rights first, then the captured
\* pawn, the castling rook, the piece, the en-passant target and the side.
apply_move_for_perft(position, mv) ==
    LET rights == update_castling_rights_after_move(position, mv)
        b0 == position.board
        captured_square == from_rank_file(captured_pawn_rank(position, mv), file(mv.to))
        b1 == IF mv.is_en_passant /\ captured_square # NoSquare
              THEN set(b0, captured_square, NoPiece) ELSE b0
        rook_from == from_rank_file(rank(mv.from), IF file(mv.to) > file(mv.from) THEN 7 ELSE 0)
        rook_to == from_rank_file(rank(mv.from), IF file(mv.to) > file(mv.from) THEN 5 ELSE 3)
        b2 == IF mv.is_castling
              THEN set(set(b1, rook_from, NoPiece), rook_to, b1[rook_from]) ELSE b1
        piece == b2[mv.from]
        b3 == set(b2, mv.from, NoPiece)
        b4 == IF mv.promotion # "None"
              THEN (IF piece.piece # "None"
                    THEN set(b3, mv.to, Cell(mv.promotion, piece.color)) ELSE b3)
              ELSE set(b3, mv.to, piece)
        from_rank == rank(mv.from)
        to_rank == rank(mv.to)
        abs_diff == IF from_rank > to_rank THEN from_rank - to_rank ELSE to_rank - from_rank
        target == IF b4[mv.to].piece = "Pawn" /\ abs_diff = 2
                  THEN from_rank_file((from_rank + to_rank) \div 2, file(mv.from))
                  ELSE NoSquare
    IN [position EXCEPT !.castling_rights = rights, !.board = b4,
                        !.en_passant_target = target, !.side_to_move = opposite(@)]

\* The depths of test_perft_starting_position_depth_1 .. _4.
PerftDepths == 1..4

\* One activation of perft(position, depth) with depth >= 2: the moves of its
\* loop, the index of the next one and the count so far.
Frame(position, depth) ==
    [position |-> position, depth |-> depth, moves |-> generate_legal_moves(position),
     next |-> 1, count |-> 0]

\* What perft returns without a loop: 1 at depth 0, moves.len() at depth 1.
perft_leaf(position, depth) ==
    IF depth = 0 THEN 1 ELSE Len(generate_legal_moves(position))

\* A test is chosen; nothing has been called yet.
PerftInit ==
    /\ game = ChessGame_new
    /\ last = Call("new", "Ok", NoMove)
    /\ fens = <<>>
    /\ fen = <<>>
    /\ perft \in {[depth |-> d, stack |-> <<>>, result |-> NoResult] : d \in PerftDepths}
    /\ mutex = NoCaller
    /\ callers = <<>>

\* The test calls perft(&mut Position::new(), depth).
PerftCall ==
    /\ perft.stack = <<>> /\ perft.result = NoResult
    /\ perft' = IF perft.depth <= 1
                THEN [perft EXCEPT !.result = perft_leaf(Position_new, perft.depth)]
                ELSE [perft EXCEPT !.stack = <<Frame(Position_new, perft.depth)>>]
    /\ UNCHANGED <<game, last, fens, fen, mutex, callers>>

\* One turn of the loop: the move is applied to the position and perft is
\* called one level down; a call that needs no loop returns at once and the
\* position is restored.
PerftDescend ==
    /\ perft.stack # <<>>
    /\ LET top == Last(perft.stack)
           child == apply_move_for_perft(top.position, top.moves[top.next])
           advanced == [top EXCEPT !.next = @ + 1]
       IN /\ top.next <= Len(top.moves)
          /\ perft' = IF top.depth - 1 <= 1
                      THEN [perft EXCEPT !.stack = Append(Front(@),
                               [advanced EXCEPT !.count = @ + perft_leaf(child, top.depth - 1)])]
                      ELSE [perft EXCEPT !.stack = Append(Append(Front(@), advanced),
                                                          Frame(child, top.depth - 1))]
    /\ UNCHANGED <<game, last, fens, fen, mutex, callers>>

\* The loop is over: the count goes to the caller, who adds it to its own and
\* restores its position; the outermost caller is the test.
PerftReturn ==
    /\ perft.stack # <<>>
    /\ LET top == Last(perft.stack)
           rest == Front(perft.stack)
       IN /\ top.next > Len(top.moves)
          /\ perft' = IF rest = <<>>
                      THEN [perft EXCEPT !.stack = <<>>, !.result = top.count]
                      ELSE [perft EXCEPT !.stack = Append(Front(rest),
                               [Last(rest) EXCEPT !.count = @ + top.count])]
    /\ UNCHANGED <<game, last, fens, fen, mutex, callers>>

PerftNext == PerftCall \/ PerftDescend \/ PerftReturn

PerftSpec == PerftInit /\ [][PerftNext]_vars

(***************************************************************************)
(* commands.rs: the commands, called concurrently on one Mutex<ChessGame>  *)
(***************************************************************************)
None == [some |-> FALSE, value |-> <<>>]

Some(v) == [some |-> TRUE, value |-> v]

parse_promotion(s) ==
    LET lower == [i \in 1..Len(s) |-> to_ascii_lowercase(s[i])]
    IN CASE lower = <<"q", "u", "e", "e", "n">> -> Ok("Queen")
         [] lower = <<"r", "o", "o", "k">> -> Ok("Rook")
         [] lower = <<"b", "i", "s", "h", "o", "p">> -> Ok("Bishop")
         [] lower = <<"k", "n", "i", "g", "h", "t">> -> Ok("Knight")
         [] OTHER -> Err

Callers == {1, 2}

\* Commands invoked in all, by either caller.
MaxCalls == 3

Command(name, from, to, promotion, string) ==
    [name |-> name, from |-> from, to |-> to, promotion |-> promotion, fen |-> string]

\* The invocations tried: e2e4, e7e5, a7a8 promoting to "Queen" (FEN_PROMOTE),
\* a move from "e9", a promotion to "king"; load_fen of FEN_PROMOTE and of "x".
Commands ==
    {Command("make_move", <<"e", "2">>, <<"e", "4">>, None, <<>>),
     Command("make_move", <<"e", "7">>, <<"e", "5">>, None, <<>>),
     Command("make_move", <<"a", "7">>, <<"a", "8">>, Some(<<"Q", "u", "e", "e", "n">>), <<>>),
     Command("make_move", <<"e", "9">>, <<"e", "4">>, None, <<>>),
     Command("make_move", <<"a", "7">>, <<"a", "8">>, Some(<<"k", "i", "n", "g">>), <<>>),
     Command("undo_move", <<>>, <<>>, None, <<>>),
     Command("new_game", <<>>, <<>>, None, <<>>),
     Command("get_legal_moves", <<>>, <<>>, None, <<>>),
     Command("load_fen", <<>>, <<>>, None, FEN_PROMOTE),
     Command("load_fen", <<>>, <<>>, None, <<"x">>)}

\* A caller between two commands.  pc is the statement it stands before, next
\* the one that follows the lock; mv is the move resolved, seen the position it
\* was resolved in, after the game its make_move left, new_game the game
\* load_fen built, ret what the last command returned.
IdleCaller ==
    [pc |-> "idle", next |-> "idle", cmd |-> Command("none", <<>>, <<>>, None, <<>>),
     calls |-> 0, mv |-> NoMove, seen |-> Position_empty, after |-> ChessGame_new,
     new_game |-> ChessGame_new, ret |-> Ok("none")]

\* The command returns: its guard, if it holds one, is dropped with it.
Return(caller, ret) == [caller EXCEPT !.pc = "idle", !.next = "idle", !.ret = ret]

\* The statements a caller executes holding the lock.
HeldSteps == {"resolve", "apply", "status", "undo", "new", "load", "read"}

\* lib.rs: the state managed is Mutex::new(ChessGame::new()).
CmdInit ==
    /\ game = ChessGame_new
    /\ last = Call("new", "Ok", NoMove)
    /\ fens = <<>>
    /\ fen = <<>>
    /\ perft = PerftIdle
    /\ mutex = NoCaller
    /\ callers = [c \in Callers |-> IdleCaller]

\* A command is invoked and runs up to its state.lock(): make_move parses its
\* squares and its promotion, load_fen builds the new game; either may return
\* an error without ever locking.
Invoke(c) ==
    /\ callers[c].pc = "idle" /\ callers[1].calls + callers[2].calls < MaxCalls
    /\ \E cmd \in Commands :
        LET called == [callers[c] EXCEPT !.cmd = cmd, !.calls = @ + 1, !.pc = "lock"]
            from_square == from_algebraic(cmd.from)
            to_square == from_algebraic(cmd.to)
            promotion_piece == IF cmd.promotion.some
                               THEN parse_promotion(cmd.promotion.value) ELSE Ok("None")
            new_game == ChessGame_from_fen(cmd.fen)
        IN callers' = [callers EXCEPT ![c] =
             CASE cmd.name = "make_move" ->
                    IF ~from_square.ok THEN Return(called, from_square)
                    ELSE IF ~to_square.ok THEN Return(called, to_square)
                    ELSE IF ~promotion_piece.ok THEN Return(called, promotion_piece)
                    ELSE [called EXCEPT !.next = "resolve",
                                        !.mv = [NewMove(from_square.value, to_square.value)
                                                  EXCEPT !.promotion = promotion_piece.value]]
               [] cmd.name = "load_fen" ->
                    IF ~new_game.ok THEN Return(called, new_game)
                    ELSE [called EXCEPT !.next = "load", !.new_game = new_game.value]
               [] cmd.name = "undo_move" -> [called EXCEPT !.next = "undo"]
               [] cmd.name = "new_game" -> [called EXCEPT !.next = "new"]
               [] cmd.name = "get_legal_moves" -> [called EXCEPT !.next = "read"]]
    /\ UNCHANGED <<game, last, fens, fen, perft, mutex>>

\* state.lock(): the caller waits until the lock is free and takes it.
Lock(c) ==
    /\ callers[c].pc = "lock" /\ mutex = NoCaller
    /\ mutex' = c
    /\ callers' = [callers EXCEPT ![c].pc = callers[c].next]
    /\ UNCHANGED <<game, last, fens, fen, perft>>

\* make_move that drops its guard once the move is resolved and locks again to
\* apply it: the fault C30 excludes.
Resolve_in_a_hold_of_its_own(c) ==
    /\ callers[c].pc = "resolve" /\ mutex = c
    /\ LET wanted(m) == /\ m.from = callers[c].mv.from /\ m.to = callers[c].mv.to
                        /\ m.promotion = callers[c].mv.promotion
           found == SelectSeq(get_legal_moves(game), wanted)
       IN IF found = <<>>
          THEN /\ callers' = [callers EXCEPT ![c] = Return(@, Err)]
               /\ mutex' = NoCaller
          ELSE /\ callers' = [callers EXCEPT ![c].mv = Head(found),
                                             ![c].seen = game.position,
                                             ![c].pc = "lock", ![c].next = "apply"]
               /\ mutex' = NoCaller
    /\ UNCHANGED <<game, last, fens, fen, perft>>

\* make_move, under the lock: the first move of get_legal_moves() with the
\* squares and promotion asked for, or the error "Illegal move".
Resolve(c) ==
    /\ callers[c].pc = "resolve" /\ mutex = c
    /\ LET wanted(m) == /\ m.from = callers[c].mv.from /\ m.to = callers[c].mv.to
                        /\ m.promotion = callers[c].mv.promotion
           found == SelectSeq(get_legal_moves(game), wanted)
       IN IF found = <<>>
          THEN /\ callers' = [callers EXCEPT ![c] = Return(@, Err)]
               /\ mutex' = NoCaller
          ELSE /\ callers' = [callers EXCEPT ![c].mv = Head(found),
                                             ![c].seen = game.position,
                                             ![c].pc = "apply"]
               /\ mutex' = mutex
    /\ UNCHANGED <<game, last, fens, fen, perft>>

\* make_move, under the lock: game.make_move(mv)?
Apply(c) ==
    /\ callers[c].pc = "apply" /\ mutex = c
    /\ \E out \in make_move_outcomes(game, callers[c].mv) :
        /\ game' = out.game
        /\ IF out.result = "Ok"
           THEN /\ callers' = [callers EXCEPT ![c].pc = "status", ![c].after = out.game]
                /\ mutex' = mutex
           ELSE /\ callers' = [callers EXCEPT ![c] = Return(@, Err)]
                /\ mutex' = NoCaller
    /\ UNCHANGED <<last, fens, fen, perft>>

\* undo_move, under the lock: game.undo_move()?
Undo(c) ==
    /\ callers[c].pc = "undo" /\ mutex = c
    /\ LET out == undo_move(game)
       IN /\ game' = out.game
          /\ IF out.result = "Ok"
             THEN /\ callers' = [callers EXCEPT ![c].pc = "status"]
                  /\ mutex' = mutex
             ELSE /\ callers' = [callers EXCEPT ![c] = Return(@, Err)]
                  /\ mutex' = NoCaller
    /\ UNCHANGED <<last, fens, fen, perft>>

\* make_move and undo_move, under the lock: Ok(game.get_status()).
ReturnStatus(c) ==
    /\ callers[c].pc = "status" /\ mutex = c
    /\ callers' = [callers EXCEPT ![c] = Return(@, Ok(game.status))]
    /\ mutex' = NoCaller
    /\ UNCHANGED <<game, last, fens, fen, perft>>

\* new_game and load_fen, under the lock: *game = ...
Replace(c) ==
    /\ callers[c].pc \in {"new", "load"} /\ mutex = c
    /\ game' = IF callers[c].pc = "new" THEN ChessGame_new ELSE callers[c].new_game
    /\ callers' = [callers EXCEPT ![c] =
                     Return(@, IF callers[c].pc = "new" THEN Ok("unit")
                               ELSE Ok(callers[c].new_game.position))]
    /\ mutex' = NoCaller
    /\ UNCHANGED <<last, fens, fen, perft>>

\* get_legal_moves, under the lock: Ok(game.get_legal_moves()).
ReadMoves(c) ==
    /\ callers[c].pc = "read" /\ mutex = c
    /\ callers' = [callers EXCEPT ![c] = Return(@, Ok(get_legal_moves(game)))]
    /\ mutex' = NoCaller
    /\ UNCHANGED <<game, last, fens, fen, perft>>

CmdNext ==
    \E c \in Callers :
        \/ Invoke(c) \/ Lock(c) \/ Resolve(c) \/ Apply(c) \/ Undo(c)
        \/ ReturnStatus(c) \/ Replace(c) \/ ReadMoves(c)

CmdSpec == CmdInit /\ [][CmdNext]_vars

(***************************************************************************)
(* Properties                                                              *)
(***************************************************************************)
MadeMove == last.op = "make_move" /\ last.result = "Ok"

\* The position the last applied move was made in.
Before == Last(game.position_snapshots)

\* mv is in the list get_legal_moves() returns in g.
Listed(g, mv) == mv \in SeqToSet(get_legal_moves(g))

\* C1: a successful undo_move leaves to_fen() byte-identical to what the caller
\* read before the make_move it undoes, however many moves were applied and
\* undone in between.
C1_UndoRestoresFen ==
    [][(last'.op = "undo_move" /\ last'.result = "Ok") => to_fen(game') = Last(fens)]_vars

\* An inner undo: a move was undone, another applied move is still beneath it,
\* and the restored position is not the one that move was made in.
C1_Witness ==
    /\ last.op = "undo_move" /\ last.result = "Ok"
    /\ fens # <<>>
    /\ to_fen(game) # Last(fens)

\* C2: a make_move that returns GameOver or InvalidMove leaves to_fen(), the
\* status, the move history and the snapshot stack (and the whole position) as
\* they were.
C2_FailedMoveChangesNothing ==
    [][(last'.op = "make_move" /\ last'.result \in {"GameOver", "InvalidMove"})
        => /\ to_fen(game') = to_fen(game)
           /\ game'.status = game.status
           /\ game'.move_history = game.move_history
           /\ game'.position_snapshots = game.position_snapshots
           /\ game'.position = game.position]_vars

\* A castling move that passed is_legal_move and was then refused by
\* apply_castling, after the snapshot had been pushed.
C2_Witness ==
    /\ last.op = "make_move" /\ last.result = "InvalidMove"
    /\ last.mv.is_castling
    /\ is_legal_move(game.position, last.mv)

\* C3: after a successful make_move of a listed move the halfmove clock is 0 if
\* the piece that moved was a pawn (promoting or not) or the move captured
\* (en passant included), and the previous clock plus 1 otherwise.
C3_HalfmoveClock ==
    [][(last'.op = "make_move" /\ last'.result = "Ok" /\ Listed(game, last'.mv))
        => LET mv == last'.mv
               board == game.position.board
               pawn_moved == board[mv.from].piece = "Pawn"
               captured == board[mv.to].piece # "None" \/ mv.is_en_passant
           IN game'.position.halfmove_clock =
                  IF pawn_moved \/ captured THEN 0
                  ELSE game.position.halfmove_clock + 1]_vars

\* A pawn promoted without capturing and the clock went up by one.
C3_Witness ==
    /\ MadeMove
    /\ Before.board[last.mv.from].piece = "Pawn"
    /\ last.mv.promotion # "None"
    /\ Before.board[last.mv.to].piece = "None"
    /\ game.position.halfmove_clock = Before.halfmove_clock + 1

\* C4: after a successful make_move of a listed move whose moved piece is a
\* king (a king step or a castling move), the mover has neither castling right.
C4_KingMoveClearsRights ==
    [][(last'.op = "make_move" /\ last'.result = "Ok" /\ Listed(game, last'.mv)
        /\ game.position.board[last'.mv.from].piece = "King")
        => LET mover == game.position.board[last'.mv.from].color
           IN /\ ~can_castle(game'.position.castling_rights, mover, TRUE)
              /\ ~can_castle(game'.position.castling_rights, mover, FALSE)]_vars

\* The mover castled and still holds the right it castled with.
C4_Witness ==
    /\ MadeMove
    /\ last.mv.is_castling
    /\ Before.board[last.mv.from].piece = "King"
    /\ can_castle(game.position.castling_rights, Before.side_to_move,
                  file(last.mv.to) > file(last.mv.from))

HomeSquares(color) == IF color = "White" THEN {0, 7} ELSE {56, 63}

\* C5: after a successful make_move of a listed move in which a rook leaves
\* its own home corner, the mover's right for that wing (a-file queenside,
\* h-file kingside) is false.
C5_RookMoveClearsRight ==
    [][(last'.op = "make_move" /\ last'.result = "Ok" /\ Listed(game, last'.mv)
        /\ game.position.board[last'.mv.from].piece = "Rook"
        /\ last'.mv.from \in HomeSquares(game.position.board[last'.mv.from].color))
        => ~can_castle(game'.position.castling_rights,
                       game.position.board[last'.mv.from].color,
                       file(last'.mv.from) = 7)]_vars

\* A rook left its home corner and the mover still holds that wing's right.
C5_Witness ==
    /\ MadeMove
    /\ Before.board[last.mv.from] = Cell("Rook", Before.side_to_move)
    /\ last.mv.from \in HomeSquares(Before.side_to_move)
    /\ can_castle(game.position.castling_rights, Before.side_to_move,
                  file(last.mv.from) = 7)

\* C6: after a successful make_move of a listed move that lands on a home
\* corner of the opponent's rooks, the opponent's right for that wing is false.
C6_LandingOnCornerClearsRight ==
    [][(last'.op = "make_move" /\ last'.result = "Ok" /\ Listed(game, last'.mv)
        /\ last'.mv.to \in HomeSquares(opposite(game.position.side_to_move)))
        => ~can_castle(game'.position.castling_rights,
                       opposite(game.position.side_to_move),
                       file(last'.mv.to) = 7)]_vars

\* The opponent's rook was captured on its home corner and the opponent still
\* holds that wing's right.
C6_Witness ==
    /\ MadeMove
    /\ last.mv.to \in HomeSquares(game.position.side_to_move)
    /\ Before.board[last.mv.to] = Cell("Rook", game.position.side_to_move)
    /\ can_castle(game.position.castling_rights, game.position.side_to_move,
                  file(last.mv.to) = 7)

\* C7: make_move answers GameOver whenever the status is neither InProgress
\* nor Check, whatever the move; when the status is InProgress or Check and
\* is_legal_move is false for the move it answers InvalidMove; and it never
\* succeeds from a terminal status.  (Moves on which is_legal_move itself
\* depends on the build's overflow checks are left aside.)
C7_RejectionOrder ==
    [][(last'.op = "make_move" /\ ~rank_underflows(game.position, last'.mv))
        => /\ ~is_playable(game.status) => last'.result = "GameOver"
           /\ (is_playable(game.status) /\ ~is_legal_move(game.position, last'.mv))
                  => last'.result = "InvalidMove"]_vars

\* A move that is_legal_move refuses was given in a playable state and the
\* call panicked while formatting the refusal.
C7_Witness ==
    /\ last.op = "make_move" /\ last.result = "Panic"
    /\ is_playable(game.status)
    /\ ~is_legal_move(game.position, last.mv)
    /\ to_uci_panics(last.mv)

\* The status the fixed order of C8 gives a position.
StatusByOrder(position) ==
    LET side == position.side_to_move
        in_check == is_in_check(position, side)
        no_move == generate_legal_moves(position) = <<>>
    IN CASE in_check /\ no_move -> Checkmate(opposite(side))
         [] ~in_check /\ no_move -> Status("Stalemate")
         [] ~no_move /\ position.halfmove_clock >= 100 -> Status("DrawByFiftyMoveRule")
         [] ~no_move /\ position.halfmove_clock < 100
            /\ has_insufficient_material(position) -> Status("DrawByInsufficientMaterial")
         [] ~no_move /\ position.halfmove_clock < 100
            /\ ~has_insufficient_material(position)
            /\ is_repetition(position) -> Status("DrawByRepetition")
         [] ~no_move /\ position.halfmove_clock < 100
            /\ ~has_insufficient_material(position)
            /\ ~is_repetition(position) /\ in_check -> Status("Check")
         [] OTHER -> Status("InProgress")

\* C8: the status of the current position is the first match of Checkmate,
\* Stalemate, DrawByFiftyMoveRule, DrawByInsufficientMaterial, DrawByRepetition,
\* Check, InProgress; a mated position with a clock of 100 is Checkmate and a
\* position in check that is a threefold repetition is DrawByRepetition.
C8_StatusPrecedence ==
    /\ compute_game_status_static(game.position) = StatusByOrder(game.position)
    /\ (is_checkmate(game.position) /\ game.position.halfmove_clock >= 100)
           => game.status.type = "Checkmate"
    /\ (is_in_check(game.position, game.position.side_to_move)
        /\ is_repetition(game.position) /\ game.status.type # "Checkmate"
        /\ game.position.halfmove_clock < 100
        /\ ~has_insufficient_material(game.position))
           => game.status.type = "DrawByRepetition"

\* A move gave check and repeated the position for the third time.
C8_Witness ==
    /\ MadeMove
    /\ is_in_check(game.position, game.position.side_to_move)
    /\ is_repetition(game.position)
    /\ game.status.type = "DrawByRepetition"

\* C9: the stored status equals the status computed from scratch from the
\* current position, after construction and after every call, failed or not.
C9_StatusIsFresh == game.status = compute_game_status_static(game.position)

\* An undo left a terminal status: the restored position is playable again
\* with the clock one short of the fifty-move limit.
C9_Witness ==
    /\ last.op = "undo_move" /\ last.result = "Ok"
    /\ game.position.halfmove_clock = 99
    /\ is_playable(game.status)

\* C10: every move of generate_legal_moves(position), once its board effect is
\* applied, leaves the mover's king unattacked.
C10_LegalMovesKeepKingSafe ==
    LET position == game.position
        moves == generate_legal_moves(position)
    IN \A i \in 1..Len(moves) :
           LET after == apply_board_effect(position, moves[i])
           IN after.ok /\ ~is_in_check_board(after.value, position.side_to_move)

\* A double pawn push was just made; the generator offers the en-passant
\* capture of that pawn, which would open the rank onto the capturer's king,
\* and the capture is not in the list.
C10_Witness ==
    LET position == game.position
        pseudo == SeqToSet(generate_pseudo_legal_moves(position))
        legal == SeqToSet(generate_legal_moves(position))
    IN /\ MadeMove
       /\ position.en_passant_target # NoSquare
       /\ \E mv \in pseudo \ legal : mv.is_en_passant /\ mv.to = position.en_passant_target
       /\ legal # {}

\* What C11 requires for a castling move of color on the given wing.
CastlingConditions(position, color, kingside) ==
    LET board == position.board
        r == IF color = "White" THEN 0 ELSE 7
        between == IF kingside THEN {5, 6} ELSE {1, 2, 3}
        king_path == IF kingside THEN {5, 6} ELSE {3, 2}
    IN /\ can_castle(position.castling_rights, color, kingside)
       /\ board[from_rank_file(r, 4)] = Cell("King", color)
       /\ board[from_rank_file(r, IF kingside THEN 7 ELSE 0)] = Cell("Rook", color)
       /\ \A f \in between : board[from_rank_file(r, f)] = NoPiece
       /\ ~is_in_check(position, color)
       /\ \A f \in king_path : ~is_attacked_by(board, from_rank_file(r, f), opposite(color))

\* The castling moves of the given wing in the legal-move list of position.
ListedCastling(position, kingside) ==
    {mv \in SeqToSet(generate_legal_moves(position)) :
        mv.is_castling /\ (file(mv.to) > file(mv.from)) = kingside}

\* C11: on each wing the legal-move list of the side to move holds a castling
\* move (the king from its e-file home square two files towards the rook) if
\* and only if the right is set, king and rook are on their home squares, the
\* squares between them are empty, the king is not in check and the squares it
\* passes over and lands on are not attacked; otherwise it holds none.
C11_CastlingIffConditions ==
    LET position == game.position
        color == position.side_to_move
        r == IF color = "White" THEN 0 ELSE 7
    IN \A kingside \in BOOLEAN :
           ListedCastling(position, kingside) =
               IF CastlingConditions(position, color, kingside)
               THEN {[NewMove(from_rank_file(r, 4), from_rank_file(r, IF kingside THEN 6 ELSE 2))
                        EXCEPT !.is_castling = TRUE]}
               ELSE {}

\* After a move, the side to move may castle on one wing and holds the right
\* for the other wing too, where no castling move is listed.
C11_Witness ==
    LET position == game.position
        color == position.side_to_move
    IN /\ MadeMove
       /\ \E kingside \in BOOLEAN :
              /\ ListedCastling(position, kingside) # {}
              /\ can_castle(position.castling_rights, color, ~kingside)
              /\ ListedCastling(position, ~kingside) = {}

\* mv moves a pawn of position two ranks straight ahead.
DoublePush(position, mv) ==
    /\ position.board[mv.from].piece = "Pawn"
    /\ file(mv.to) = file(mv.from)
    /\ rank(mv.to) - rank(mv.from) = (IF position.side_to_move = "White" THEN 2 ELSE -2)

\* The square a double push passes over.
PassedOver(position, mv) ==
    from_rank_file(rank(mv.from) + (IF position.side_to_move = "White" THEN 1 ELSE -1),
                   file(mv.from))

\* The en-passant bookkeeping C12 describes for the move last'.mv.
EnPassantBookkeeping ==
    /\ game'.position.en_passant_target =
           IF DoublePush(game.position, last'.mv)
           THEN PassedOver(game.position, last'.mv)
           ELSE NoSquare
    /\ \A m \in SeqToSet(generate_pseudo_legal_moves(game'.position)) :
           m.is_en_passant
               => /\ DoublePush(game.position, last'.mv)
                  /\ m.to = PassedOver(game.position, last'.mv)

\* C12: after every successful make_move the en-passant target is the square
\* passed over if the moved piece is a pawn that advanced two ranks, and none
\* after any other move; so every en-passant capture the generator then offers
\* lands on the square the pawn just passed over.
C12_EnPassantTarget ==
    [][(last'.op = "make_move" /\ last'.result = "Ok") => EnPassantBookkeeping]_vars

\* The same bookkeeping for the accepted moves that are in the legal-move list.
ListedMovesEnPassantTarget ==
    [][(last'.op = "make_move" /\ last'.result = "Ok" /\ Listed(game, last'.mv))
        => EnPassantBookkeeping]_vars

\* A double push set the target and the en-passant capture is in the list.
DoublePushOffersEnPassant ==
    /\ MadeMove
    /\ DoublePush(Before, last.mv)
    /\ game.position.en_passant_target = PassedOver(Before, last.mv)
    /\ \E m \in SeqToSet(get_legal_moves(game)) :
           m.is_en_passant /\ m.to = game.position.en_passant_target

\* A piece that is no pawn moved, the call succeeded and an en-passant target
\* is set.
C12_Witness ==
    /\ MadeMove
    /\ Before.board[last.mv.from].piece \notin {"Pawn", "None"}
    /\ game.position.en_passant_target # NoSquare

Occurrences(position) ==
    LET h == position.position_history
    IN Cardinality({i \in 1..Len(h) : h[i] = Last(h)})

\* C14 as stated: a game whose current position has been reached three times
\* reports DrawByRepetition.
C14_ThreefoldReportsRepetition ==
    Occurrences(game.position) >= 3 => game.status = Status("DrawByRepetition")

\* C14 amended: a game whose current position has been reached three times
\* reports DrawByRepetition, unless the halfmove clock has reached 100, which
\* comes first in the order of the status and reports DrawByFiftyMoveRule.
C14_ThreefoldReportsDraw ==
    Occurrences(game.position) >= 3
        => game.status = IF game.position.halfmove_clock >= 100
                         THEN Status("DrawByFiftyMoveRule")
                         ELSE Status("DrawByRepetition")

\* make_move reached a position for the third time and the game is drawn by
\* repetition.
C14_Witness ==
    /\ MadeMove
    /\ Occurrences(game.position) = 3
    /\ Occurrences(Before) < 3
    /\ game.status = Status("DrawByRepetition")

\* make_move reached a position for the third time on the ply that took the
\* halfmove clock to 100.
ThreefoldAtClock100 ==
    /\ MadeMove
    /\ Occurrences(game.position) = 3
    /\ game.position.halfmove_clock = 100
    /\ game.status = Status("DrawByFiftyMoveRule")

\* C15: undo_move called with an empty snapshot stack fails with InvalidMove
\* and leaves position, status, move history and snapshots as they were.
C15_UndoWithoutMoves ==
    [][(last'.op = "undo_move" /\ game.position_snapshots = <<>>)
        => /\ last'.result = "InvalidMove"
           /\ game' = game]_vars

\* undo_move was refused in a game with no applied move.
C15_Witness ==
    /\ last.op = "undo_move" /\ last.result = "InvalidMove"
    /\ game.position_snapshots = <<>>
    /\ game.move_history = <<>>

\* sub is the sub-list of list with the moves from square sq, in list's order:
\* its k-th move is the move of list at the k-th index that holds such a move.
IsSubListFrom(sub, list, sq) ==
    LET idx == {i \in 1..Len(list) : list[i].from = sq}
    IN /\ Len(sub) = Cardinality(idx)
       /\ \A i \in idx : sub[Cardinality({j \in idx : j <= i})] = list[i]

\* The squares get_legal_moves_for_square is asked about in game: every square
\* a move of the position starts from, and the four corners.
QuerySquares(g) ==
    {mv.from : mv \in SeqToSet(generate_pseudo_legal_moves(g.position))} \cup {0, 7, 56, 63}

\* C16: get_legal_moves() and get_legal_moves_for_square(sq) are empty whenever
\* the status is neither InProgress nor Check; otherwise get_legal_moves() is
\* generate_legal_moves(position) and get_legal_moves_for_square(sq) is its
\* sub-list of the moves from sq.
C16_LegalMoveQueries ==
    LET all == get_legal_moves(game)
    IN IF game.status.type \in {"InProgress", "Check"}
       THEN /\ all = generate_legal_moves(game.position)
            /\ \A sq \in QuerySquares(game) :
                   IsSubListFrom(get_legal_moves_for_square(game, sq), all, sq)
       ELSE /\ all = <<>>
            /\ \A sq \in QuerySquares(game) : get_legal_moves_for_square(game, sq) = <<>>

\* make_move ended the game in a draw, the position still has legal moves and
\* the queries return none.
C16_Witness ==
    /\ MadeMove
    /\ game.status.type \in {"DrawByFiftyMoveRule", "DrawByInsufficientMaterial",
                             "DrawByRepetition"}
    /\ generate_legal_moves(game.position) # <<>>
    /\ get_legal_moves(game) = <<>>
    /\ \A sq \in QuerySquares(game) : get_legal_moves_for_square(game, sq) = <<>>

\* The mover's king stands on the origin of mv and a rook of the mover on the
\* corner of that rank on the side mv goes to.
CastlingPiecesPresent(position, mv) ==
    LET corner == from_rank_file(rank(mv.from), IF file(mv.to) > file(mv.from) THEN 7 ELSE 0)
    IN /\ position.board[mv.from] = Cell("King", position.side_to_move)
       /\ position.board[corner] = Cell("Rook", position.side_to_move)

\* C17: when make_move comes to apply a castling move and the mover's king is
\* not on the move's origin or no rook of the mover is on the matching corner,
\* it returns InvalidMove and leaves the whole game as it was, the pushed
\* snapshot popped.
C17_CastlingAtomic ==
    [][(/\ last'.op = "make_move"
        /\ last'.mv.is_castling
        /\ is_playable(game.status)
        /\ is_legal_move(game.position, last'.mv)
        /\ ~CastlingPiecesPresent(game.position, last'.mv))
        => /\ last'.result = "InvalidMove"
           /\ game' = game]_vars

\* A castling move was applied from a square that did not hold the mover's
\* king.
C17_Witness ==
    /\ MadeMove
    /\ last.mv.is_castling
    /\ Before.board[last.mv.from] # Cell("King", Before.side_to_move)
    /\ game.position.board # Before.board

\* from_fen has been called on fen and returned a game.
Loaded == last.op = "from_fen" /\ last.result = "Ok"

\* The white-space separated fields of the string s.
Fields(s) == split_whitespace(s)

\* The only white space in s is single spaces between two fields.
SingleSpaces(s) ==
    \A i \in 1..Len(s) :
        is_whitespace(s[i])
            => /\ s[i] = " "
               /\ i > 1 /\ i < Len(s)
               /\ ~is_whitespace(s[i - 1]) /\ ~is_whitespace(s[i + 1])

\* The castling field c is "-" or lists rights in the order KQkq, none twice.
CastlingInOrder(c) ==
    LET place(x) == CASE x = "K" -> 1 [] x = "Q" -> 2 [] x = "k" -> 3 [] x = "q" -> 4
                      [] OTHER -> 0
    IN \/ c = <<"-">>
       \/ /\ c # <<>>
          /\ \A i \in 1..Len(c) : place(c[i]) > 0
          /\ \A i \in 1..(Len(c) - 1) : place(c[i]) < place(c[i + 1])

\* The counter field n has no leading zero.
NoLeadingZero(n) == Len(n) > 1 => n[1] # "0"

\* s is canonical by the three conditions C18 names.
CanonicalAsStated(s) ==
    /\ SingleSpaces(s)
    /\ Len(Fields(s)) = 6
    /\ CastlingInOrder(Fields(s)[3])
    /\ NoLeadingZero(Fields(s)[5])
    /\ NoLeadingZero(Fields(s)[6])

\* The placement p writes every run of empty squares as one digit.
EmptyRunsMerged(p) ==
    \A i \in 1..(Len(p) - 1) : ~(is_ascii_digit(p[i]) /\ is_ascii_digit(p[i + 1]))

\* The counter field n is digits only, without a sign.
Unsigned(n) == \A i \in 1..Len(n) : is_ascii_digit(n[i])

\* C18 as stated: every string from_fen accepts that has single spaces, its
\* castling letters in the order KQkq without repeats and counters without
\* leading zeros is what to_fen gives back.
C18_RoundTripAsStated ==
    (Loaded /\ CanonicalAsStated(fen)) => to_fen(game) = fen

\* C18 amended: every string from_fen accepts that has single spaces, its
\* castling letters in the order KQkq without repeats, every run of empty
\* squares written as one digit, and unsigned counters without leading zeros
\* is what to_fen gives back.
C18_RoundTrip ==
    (/\ Loaded
     /\ CanonicalAsStated(fen)
     /\ EmptyRunsMerged(Fields(fen)[1])
     /\ Unsigned(Fields(fen)[5])
     /\ Unsigned(Fields(fen)[6]))
        => to_fen(game) = fen

\* A canonical string with castling rights, an en-passant target and counters
\* of more than one digit was loaded and given back.
C18_Witness ==
    /\ Loaded
    /\ CanonicalAsStated(fen)
    /\ EmptyRunsMerged(Fields(fen)[1])
    /\ Len(Fields(fen)[3]) > 1
    /\ Fields(fen)[4] # <<"-">>
    /\ Len(Fields(fen)[5]) > 1
    /\ to_fen(game) = fen

\* A string that meets the three conditions of C18 was loaded and to_fen gives
\* another string.
RoundTripDiffers ==
    /\ Loaded
    /\ CanonicalAsStated(fen)
    /\ to_fen(game) # fen

\* The "/" separated ranks of the placement field of s, the eighth rank first.
Ranks(s) == split(Fields(s)[1], "/")

\* The number of files the rank string r covers: a digit counts for its
\* value, any other character for one.
RECURSIVE Width(_)
Width(r) ==
    IF r = <<>> THEN 0
    ELSE (IF is_ascii_digit(r[1]) THEN digit_value(r[1]) ELSE 1) + Width(Tail(r))

\* The rank string r with every digit written out as that many "1".
RECURSIVE Expand(_)
Expand(r) ==
    IF r = <<>> THEN <<>>
    ELSE (IF is_ascii_digit(r[1]) THEN [i \in 1..digit_value(r[1]) |-> "1"] ELSE <<r[1]>>)
         \o Expand(Tail(r))

\* How often the character c occurs in the string str.
Count(c, str) == Cardinality({i \in 1..Len(str) : str[i] = c})

\* The character s writes on file f of rank r (both from 0), "1" for an empty
\* square and "" where s has no such square.
CharAt(s, r, f) ==
    IF Len(Ranks(s)) # 8 THEN ""
    ELSE LET row == Expand(Ranks(s)[8 - r])
         IN IF f + 1 <= Len(row) THEN row[f + 1] ELSE ""

WrongFieldCount(s) == Len(Fields(s)) # 6

WrongRankCount(s) == Len(Ranks(s)) # 8

WrongRankSum(s) == \E i \in 1..Len(Ranks(s)) : Width(Ranks(s)[i]) # 8

WrongKingCount(s) == Count("K", Fields(s)[1]) # 1 \/ Count("k", Fields(s)[1]) # 1

PawnOnEdgeRank(s) ==
    \E r \in {Ranks(s)[1], Ranks(s)[Len(Ranks(s))]} : Count("P", r) + Count("p", r) > 0

\* The en-passant field of s names a square off the sixth rank with White to
\* move, or off the third rank with Black to move.
EnPassantOffRank(s) ==
    LET ep == Fields(s)[4]
        side == Fields(s)[2]
    IN /\ from_algebraic(ep).ok
       /\ \/ side = <<"w">> /\ ep[2] # "6"
          \/ side = <<"b">> /\ ep[2] # "3"

\* The castling field of s asserts a right whose king is not on e1/e8 or whose
\* rook is not on the matching corner.
UnsupportedCastlingRight(s) ==
    LET c == Fields(s)[3]
    IN \/ Count("K", c) > 0 /\ ~(CharAt(s, 0, 4) = "K" /\ CharAt(s, 0, 7) = "R")
       \/ Count("Q", c) > 0 /\ ~(CharAt(s, 0, 4) = "K" /\ CharAt(s, 0, 0) = "R")
       \/ Count("k", c) > 0 /\ ~(CharAt(s, 7, 4) = "k" /\ CharAt(s, 7, 7) = "r")
       \/ Count("q", c) > 0 /\ ~(CharAt(s, 7, 4) = "k" /\ CharAt(s, 7, 0) = "r")

\* s has one of the faults C19 lists.
Faulty(s) ==
    \/ WrongFieldCount(s)
    \/ WrongRankCount(s)
    \/ WrongRankSum(s)
    \/ WrongKingCount(s)
    \/ PawnOnEdgeRank(s)
    \/ EnPassantOffRank(s)
    \/ UnsupportedCastlingRight(s)

\* position has none of the faults C19 lists.
WellFormed(position) ==
    LET board == position.board
        cr == position.castling_rights
    IN /\ \A c \in {"White", "Black"} :
              Cardinality({sq \in 0..63 : board[sq] = Cell("King", c)}) = 1
       /\ \A sq \in 0..63 : board[sq].piece = "Pawn" => rank(sq) \in 1..6
       /\ position.en_passant_target # NoSquare
              => rank(position.en_passant_target)
                     = (IF position.side_to_move = "White" THEN 5 ELSE 2)
       /\ cr.white_kingside => board[4] = Cell("King", "White") /\ board[7] = Cell("Rook", "White")
       /\ cr.white_queenside => board[4] = Cell("King", "White") /\ board[0] = Cell("Rook", "White")
       /\ cr.black_kingside => board[60] = Cell("King", "Black") /\ board[63] = Cell("Rook", "Black")
       /\ cr.black_queenside => board[60] = Cell("King", "Black") /\ board[56] = Cell("Rook", "Black")

\* C19: from_fen returns InvalidFen and no game for every string with other
\* than 6 fields, other than 8 ranks, a rank not of 8 files, no or several
\* kings of a colour, a pawn on the first or last rank, an en-passant target
\* off the rank the side to move requires, or a castling right without its
\* king and rook at home; and every position it returns has none of these.
C19_FaultyStringsAreInvalidFen ==
    last.op = "from_fen"
        => /\ Faulty(fen) => last.result = "InvalidFen" /\ game = ChessGame_new
           /\ last.result = "Ok" => WellFormed(game.position)

\* The same with any error in place of InvalidFen.
FaultyStringsAreRefused ==
    last.op = "from_fen"
        => /\ Faulty(fen) => last.result # "Ok" /\ game = ChessGame_new
           /\ last.result = "Ok" => WellFormed(game.position)

\* A string with no or several kings of a colour was refused with
\* InvalidSquare.
C19_Witness ==
    /\ last.op = "from_fen"
    /\ Len(Fields(fen)) = 6
    /\ WrongKingCount(fen)
    /\ last.result = "InvalidSquare"

\* The squares of the pieces of color on board other than its king.
Others(board, color) ==
    {sq \in 0..63 : board[sq].color = color /\ board[sq].piece # "King"}

\* The parity of rank + file of the one square of the set squares.
Parity(squares) == LET sq == CHOOSE x \in squares : TRUE IN (rank(sq) + file(sq)) % 2

\* The material of board is one of the three kinds C20 lists.
DrawnMaterial(board) ==
    LET white == Others(board, "White")
        black == Others(board, "Black")
        all == white \cup black
    IN \/ all = {}
       \/ /\ Cardinality(all) = 1
          /\ \A sq \in all : board[sq].piece \in {"Bishop", "Knight"}
       \/ /\ Cardinality(white) = 1 /\ Cardinality(black) = 1
          /\ \A sq \in all : board[sq].piece = "Bishop"
          /\ Parity(white) = Parity(black)

\* C20: has_insufficient_material is true exactly for king against king, king
\* against king and one bishop or knight, and king and bishop against king and
\* bishop with the bishops on squares of the same parity of rank + file.
C20_InsufficientMaterial ==
    has_insufficient_material(game.position) = DrawnMaterial(game.position.board)

\* Bishops of both colours on squares of the same parity were loaded, the
\* material is insufficient and the game is a draw for it.
C20_Witness ==
    /\ Loaded
    /\ Cardinality(Others(game.position.board, "White")) = 1
    /\ Cardinality(Others(game.position.board, "Black")) = 1
    /\ \A sq \in 0..63 : game.position.board[sq].piece \in {"None", "King", "Bishop"}
    /\ has_insufficient_material(game.position)
    /\ game.status = Status("DrawByInsufficientMaterial")

\* Bishops of both colours on squares of different parity were loaded and the
\* material is sufficient.
OppositeBishopsSuffice ==
    /\ Loaded
    /\ Cardinality(Others(game.position.board, "White")) = 1
    /\ Cardinality(Others(game.position.board, "Black")) = 1
    /\ \A sq \in 0..63 : game.position.board[sq].piece \in {"None", "King", "Bishop"}
    /\ ~has_insufficient_material(game.position)

\* Two knights against the bare king were loaded and the material is
\* sufficient.
TwoKnightsSuffice ==
    /\ Loaded
    /\ Cardinality(Others(game.position.board, "White")) = 2
    /\ Others(game.position.board, "Black") = {}
    /\ \A sq \in 0..63 : game.position.board[sq].piece \in {"None", "King", "Knight"}
    /\ ~has_insufficient_material(game.position)

\* C21: no make_move call ends in an uncaught fault: whatever the Move value
\* and the state, it succeeds or returns GameOver or InvalidMove.
C21_MakeMoveNeverPanics ==
    last.op = "make_move" => last.result \in {"Ok", "GameOver", "InvalidMove"}

\* A make_move call panicked: while formatting a refused move whose promotion
\* piece to_uci has no letter for, or on the rank subtraction of an en-passant
\* move to rank 1 by White.
C21_Witness ==
    /\ last.op = "make_move" /\ last.result = "Panic"
    /\ \/ to_uci_panics(last.mv) /\ ~is_legal_move(game.position, last.mv)
       \/ rank_underflows(game.position, last.mv)

\* The rank subtraction is one way a call panics: White's en-passant move to
\* rank 1 in a build with overflow checks.
RankSubtractionPanics ==
    /\ last.op = "make_move" /\ last.result = "Panic"
    /\ ~to_uci_panics(last.mv)
    /\ rank_underflows(game.position, last.mv)

\* C22: perft on the initial position returns 20, 400, 8902 and 197281 at
\* depths 1, 2, 3 and 4: the number of sequences of legal moves of that length.
C22_PerftCounts ==
    perft.result # NoResult
        => perft.result = (CASE perft.depth = 1 -> 20 [] perft.depth = 2 -> 400
                             [] perft.depth = 3 -> 8902 [] perft.depth = 4 -> 197281)

\* The deepest test has returned.
C22_Witness == perft.depth = 4 /\ perft.result # NoResult /\ perft.stack = <<>>

\* C23: in a state with status InProgress or Check, every move make_move
\* accepts is in the list get_legal_moves() returns in that state, and a move
\* that is not in the list is refused with InvalidMove.
C23_AcceptedMovesAreListed ==
    [][(last'.op = "make_move" /\ is_playable(game.status))
        => /\ last'.result = "Ok" => Listed(game, last'.mv)
           /\ ~Listed(game, last'.mv) => last'.result = "InvalidMove"]_vars

\* make_move accepted a move that the list of the position it was made in does
\* not hold.
C23_Witness ==
    /\ MadeMove
    /\ last.mv \notin SeqToSet(generate_legal_moves(Before))

\* The moves of the list are all accepted.
ListedMovesAreAccepted ==
    [][(last'.op = "make_move" /\ Listed(game, last'.mv)) => last'.result = "Ok"]_vars

\* Every move applied and not undone was in the list get_legal_moves() returned
\* in the position it was made in.
AllListed(g) ==
    \A i \in 1..Len(g.move_history) :
        g.move_history[i] \in SeqToSet(generate_legal_moves(g.position_snapshots[i]))

Kings(board, color) == {sq \in 0..63 : board[sq] = Cell("King", color)}

\* C24: in every position reached from new() or from a position from_fen
\* accepts by moves taken from get_legal_moves(), the board holds exactly one
\* white king and exactly one black king.
C24_OneKingEach ==
    AllListed(game)
        => /\ Cardinality(Kings(game.position.board, "White")) = 1
           /\ Cardinality(Kings(game.position.board, "Black")) = 1

\* A move of the list has taken a king off the board.
C24_Witness ==
    /\ MadeMove
    /\ AllListed(game)
    /\ Before.board[last.mv.to].piece = "King"
    /\ Kings(game.position.board, game.position.side_to_move) = {}

\* In games started by new() no move of the list takes a king.
NewGameKeepsKings ==
    (fen = <<>> /\ AllListed(game))
        => /\ Cardinality(Kings(game.position.board, "White")) = 1
           /\ Cardinality(Kings(game.position.board, "Black")) = 1

\* A king of this colour made one of the moves applied and not undone.
KingHasMoved(g, color) ==
    \E i \in 1..Len(g.move_history) :
        g.position_snapshots[i].board[g.move_history[i].from] = Cell("King", color)

\* C25: once a side's king has made a move that make_move accepted and that
\* has not been undone, the legal-move list holds no castling move for that
\* side, even with the king back on its home square and both rooks on their
\* corners.
C25_NoCastlingAfterKingMove ==
    KingHasMoved(game, game.position.side_to_move)
        => \A mv \in SeqToSet(get_legal_moves(game)) : ~mv.is_castling

\* The king of the side to move went out and came back by moves of the list,
\* and the list offers castling.
C25_Witness ==
    /\ KingHasMoved(game, game.position.side_to_move)
    /\ AllListed(game)
    /\ \E mv \in SeqToSet(get_legal_moves(game)) : mv.is_castling

\* The en-passant moves of the list get_legal_moves() returns in g.
ListedEnPassant(g) == {mv \in SeqToSet(get_legal_moves(g)) : mv.is_en_passant}

\* The square directly behind the target, as the mover sees it.
Behind(position, mv) ==
    from_rank_file(IF position.side_to_move = "White" THEN rank(mv.to) - 1 ELSE rank(mv.to) + 1,
                   file(mv.to))

Occupied(board) == {sq \in 0..63 : board[sq].piece # "None"}

\* mv, made in g, lands on an empty square and removes exactly one piece, the
\* opposing pawn behind the target; the list has no twin of it without the flag.
CapturesEnPassant(g, mv) ==
    LET board == g.position.board
        after == make_move(g, mv).game.position.board
        behind == Behind(g.position, mv)
    IN /\ board[mv.to].piece = "None"
       /\ board[behind] = Cell("Pawn", opposite(g.position.side_to_move))
       /\ Occupied(board) \ Occupied(after) = {mv.from, behind}
       /\ Occupied(after) \ Occupied(board) = {mv.to}
       /\ after[mv.to] = board[mv.from]
       /\ [mv EXCEPT !.is_en_passant = FALSE] \notin SeqToSet(get_legal_moves(g))

\* C26: in every position from_fen accepts or play reaches, every move of the
\* legal-move list flagged is_en_passant lands on an empty square and removes
\* exactly one piece, an opposing pawn directly behind the target square, and
\* the list holds no move with the same squares and the flag off.
C26_EnPassantCaptures ==
    \A mv \in ListedEnPassant(game) : CapturesEnPassant(game, mv)

\* A listed en-passant move was made with no pawn behind its target: every
\* piece is still on the board.
C26_Witness ==
    /\ MadeMove
    /\ last.mv.is_en_passant
    /\ last.mv \in SeqToSet(generate_legal_moves(Before))
    /\ Before.board[Behind(Before, last.mv)].piece = "None"
    /\ Cardinality(Occupied(game.position.board)) = Cardinality(Occupied(Before.board))

\* Where the target comes from a double push made by a move of the list, the
\* en-passant moves capture as claimed.
PlayedEnPassantCaptures ==
    (game.move_history # <<>> /\ AllListed(game)) => C26_EnPassantCaptures

\* Such a state: the last move was a listed double push and the list answers
\* with an en-passant move.
PlayedEnPassantListed ==
    /\ MadeMove /\ AllListed(game)
    /\ ListedEnPassant(game) # {}

\* The number of moves applied and not undone, as the callers count them.
Applied == Len(fens)

\* Both stacks hold one entry per applied and not yet undone move.
StacksMatchApplied ==
    /\ Len(game.position_snapshots) = Applied
    /\ Len(game.move_history) = Applied

\* A successful make_move adds one entry to both stacks, a successful undo_move
\* takes one off both, and a failed call leaves both as they were.
StacksStep ==
    LET delta == IF last'.result # "Ok" THEN 0
                 ELSE IF last'.op = "make_move" THEN 1 ELSE -1
    IN /\ Len(game'.position_snapshots) = Len(game.position_snapshots) + delta
       /\ Len(game'.move_history) = Len(game.move_history) + delta

\* C27: in every state the snapshot stack and the move history have the same
\* length, the number of applied and not yet undone moves; each successful
\* make_move increases both by 1, each successful undo_move decreases both by
\* 1, and every failed call leaves both unchanged.
C27_StacksMatchAppliedMoves == []StacksMatchApplied /\ [][StacksStep]_vars

\* Two moves are applied and a third was just refused.
C27_Witness ==
    /\ Len(game.position_snapshots) = 2 /\ Len(game.move_history) = 2
    /\ last.op = "make_move" /\ last.result # "Ok"

\* C28: in every state the position's hash history is non-empty, its last
\* entry is the hash computed from scratch from the current board, castling
\* rights, en-passant file and side to move, and its length is 1 plus the
\* number of applied and not yet undone moves; the halfmove clock and the
\* move number do not influence the hash.
C28_HashHistory ==
    LET position == game.position
        history == position.position_history
    IN /\ history # <<>>
       /\ Last(history) = compute_zobrist_hash(position)
       /\ Len(history) = 1 + Applied
       /\ \A clock \in {0, position.halfmove_clock + 1}, number \in {1, position.fullmove_number + 1} :
              compute_zobrist_hash([position EXCEPT !.halfmove_clock = clock,
                                                    !.fullmove_number = number])
                  = compute_zobrist_hash(position)

\* A position came back with other counters after moves were made and one was
\* undone: the history holds its hash twice and has one entry per applied move
\* plus one.
C28_Witness ==
    /\ last.op = "undo_move" /\ last.result = "Ok"
    /\ Applied >= 2
    /\ Len(game.position.position_history) = 1 + Applied
    /\ \E i \in 1..Len(game.position_snapshots) :
           /\ game.position.position_history[i] = Last(game.position.position_history)
           /\ game.position_snapshots[i].halfmove_clock # game.position.halfmove_clock
           /\ game.position_snapshots[i].fullmove_number # game.position.fullmove_number

\* C29: a terminal status stops make_move but not undo_move.  Whatever the
\* status, with at least one applied move undo_move succeeds and the status
\* afterwards is that of the restored position, so the list of legal moves is
\* not empty and the move taken back can be made again, which gives the game
\* and the status there were before the undo; make_move in a terminal status
\* answers GameOver and changes nothing.
C29_UndoLeavesTerminalStatus ==
    [][/\ (last'.op = "undo_move" /\ game.position_snapshots # <<>>)
           => /\ last'.result = "Ok"
              /\ game'.position = Last(game.position_snapshots)
              /\ game'.status = compute_game_status_static(game'.position)
              /\ is_playable(game'.status)
              /\ get_legal_moves(game') # <<>>
              /\ make_move(game', Last(game.move_history)) = Outcome("Ok", game)
       /\ (last'.op = "make_move" /\ ~is_playable(game.status))
           => last'.result = "GameOver" /\ game' = game]_vars

\* A move was taken back in the position of FEN_MATE_IN_1, the same state
\* whichever move it was, the mating move included: the game is playable again
\* and the list holds the move that mates.
C29_Witness ==
    /\ last.op = "undo_move" /\ last.result = "Ok"
    /\ fen = FEN_MATE_IN_1 /\ Applied = 0
    /\ is_playable(game.status)
    /\ \E mv \in SeqToSet(get_legal_moves(game)) :
           make_move(game, mv).game.status.type = "Checkmate"

\* The lock is held exactly by the caller that stands at a statement between
\* state.lock() and the return, if there is one.
OneLockHold ==
    \A c \in Callers : (callers[c].pc \in HeldSteps) <=> (mutex = c)

\* What one step of the commands may do to the game: only the holder of the
\* lock changes it; make_move applies the move it resolved, a move of the list,
\* to the position it resolved it in; and the status make_move returns is the
\* status of the game its own move left.
SerializedStep ==
    /\ game' # game
        => /\ mutex \in Callers
           /\ callers[mutex].pc \in {"apply", "undo", "new", "load"}
           /\ callers'[mutex].pc # callers[mutex].pc
    /\ \A c \in Callers :
        /\ (callers[c].pc = "apply" /\ callers'[c].pc # "apply")
            => /\ game.position = callers[c].seen
               /\ Listed(game, callers[c].mv)
               /\ callers'[c].pc = "status"
               /\ game' = make_move(game, callers[c].mv).game
        /\ (callers[c].pc = "status" /\ callers[c].cmd.name = "make_move"
            /\ callers'[c].pc = "idle")
            => /\ game = callers[c].after
               /\ callers'[c].ret = Ok(make_move([game EXCEPT !.position = callers[c].seen,
                                                             !.position_snapshots = Front(@),
                                                             !.move_history = Front(@),
                                                             !.status = compute_game_status_static(callers[c].seen)],
                                                 callers[c].mv).game.status)

\* C30: with callers invoking make_move, undo_move, new_game, load_fen and
\* get_legal_moves concurrently, each command touches the game in one
\* uninterrupted hold of the lock: make_move applies the move it resolved
\* against the legal-move list to the very position it resolved it in, and
\* returns the status right after that move.
C30_CommandsAreSerialized == []OneLockHold /\ [][SerializedStep]_vars

\* make_move has applied its move and is about to read the status while the
\* other caller, whose command would change the game, waits for the lock.
C30_Witness ==
    \E c, d \in Callers :
        /\ c # d
        /\ callers[c].cmd.name = "make_move" /\ callers[c].pc = "status"
        /\ game.position # callers[c].seen
        /\ callers[d].pc = "lock"
        /\ callers[d].cmd.name \in {"make_move", "undo_move", "new_game", "load_fen"}

====
